---- MODULE Spec2Model ----
(***************************************************************************)
(* fadhilyori/subping: the concurrent subnet scan engine.                  *)
(*                                                                         *)
(*   pkg/network  SubnetHostsIterator (Next, First/Last address,           *)
(*                CalculateTotalHosts)                                     *)
(*   subping      NewSubping / NewSubpingWithPinger, Run, startWorker,     *)
(*                calculateMaxPartitionSize                                *)
(*                                                                         *)
(* Addresses are byte sequences as in Go's net.IP.  To enumerate whole     *)
(* address families the widths are scaled: a byte has ByteBits bits (8 in  *)
(* Go), the short family has IPv4len bytes (4 in Go), the long family      *)
(* IPv6len bytes (16 in Go) and a Go int has IntBits bits (64 in Go).  The *)
(* scaling keeps the order  short family bits <= IntBits - 2 < long family *)
(* bits  of the real widths (32 <= 62 < 128), and keeps room for the       *)
(* v4-in-v6 prefix (IPv6len - IPv4len bytes ending in two all-ones bytes). *)
(***************************************************************************)
EXTENDS Integers, Sequences, FiniteSets, TLC

\* ------------------------------------------------------------------ widths
ByteBits == 2
IPv4len == 2
IPv6len == 5
IntBits == 10
MantBits == 6

\* ------------------------------------------------------------------ bounds
\* Next() calls the driver makes after the first nil result.
MaxExtraCalls == 17
\* Largest Count, Interval/Timeout and MaxWorkers among the options tried.
MaxCount == 2
MaxDuration == 1
MaxWorkersOpt == 3
\* Partition counts 1..MaxPartitions are tried with every data size.
MaxPartitions == 12
\* Largest MaxWorkers and Count of a session that is run.
MaxRunWorkers == 3
MaxRunCount == 1
MaxRuns == 2
MaxOverrides == 1
MaxPingCount == 2
MaxRtt == 2
MaxListLen == 18
MaxCallers == 2
MaxTargets == 3
MaxNumJobs == 4

\* A nil net.IP is the slice of length 0.
Nil == <<>>
\* No call made yet.
NoRet == <<0 - 1>>

RECURSIVE Pow2(_)
Pow2(n) == IF n = 0 THEN 1 ELSE 2 * Pow2(n - 1)

ByteMod == Pow2(ByteBits)
ByteMax == ByteMod - 1
Byte == 0..ByteMax

MaxInt == Pow2(IntBits - 1) - 1
MinInt == 0 - Pow2(IntBits - 1)

Min(a, b) == IF a < b THEN a ELSE b
Max(a, b) == IF a > b THEN a ELSE b

\* ------------------------------------------------------------ byte algebra
\* a & b on bytes
RECURSIVE BitAnd(_, _, _)
BitAnd(a, b, n) ==
    IF n = 0 THEN 0
    ELSE (IF a % 2 = 1 /\ b % 2 = 1 THEN 1 ELSE 0) + 2 * BitAnd(a \div 2, b \div 2, n - 1)

ByteAnd(a, b) == BitAnd(a, b, ByteBits)
\* ^b on a byte
ByteNot(b) == ByteMax - b
\* a | b on bytes
ByteOr(a, b) == ByteNot(ByteAnd(ByteNot(a), ByteNot(b)))

IPsOfLen(n) == [1..n -> Byte]
IP == IPsOfLen(IPv4len) \cup IPsOfLen(IPv6len)
AddrBits(n) == n * ByteBits

\* net.CIDRMask(ones, bits): ones leading one bits, the rest zero.
CIDRMask(ones, len) ==
    [i \in 1..len |->
        LET k == Max(0, Min(ByteBits, ones - (i - 1) * ByteBits))
        IN  ByteMod - Pow2(ByteBits - k)]

\* Number of one bits of a mask byte of the form 1..10..0.
RECURSIVE LeadingOnes(_, _)
LeadingOnes(b, n) ==
    IF n = 0 \/ b < Pow2(n - 1) THEN 0
    ELSE 1 + LeadingOnes(b - Pow2(n - 1), n - 1)

\* net.IPMask.Size(): (ones, bits) of a canonical mask.
RECURSIVE MaskOnes(_, _)
MaskOnes(mask, i) ==
    IF i > Len(mask) THEN 0
    ELSE IF mask[i] = ByteMax THEN ByteBits + MaskOnes(mask, i + 1)
    ELSE LeadingOnes(mask[i], ByteBits)

MaskSize(mask) == <<MaskOnes(mask, 1), AddrBits(Len(mask))>>

\* net.IP.Mask(mask) for an address and a mask of the same length.
IPMask(ip, mask) == [i \in 1..Len(ip) |-> ByteAnd(ip[i], mask[i])]

\* net.ParseCIDR: the network of address text `ip` with prefix length `ones`.
\* The address keeps the length of its family; the network address is masked.
ParseCIDR(ip, ones) ==
    LET m == CIDRMask(ones, Len(ip))
    IN  [IP |-> IPMask(ip, m), Mask |-> m]

CIDRs == {ParseCIDR(ip, ones) : <<ip, ones>> \in
            {<<a, n>> \in IP \X (0..AddrBits(IPv6len)) : n <= AddrBits(Len(a))}}

\* The 12-byte prefix ::ffff:0:0/96 of an IPv4-mapped IPv6 address.
v4InV6Prefix ==
    [i \in 1..(IPv6len - IPv4len) |-> IF i > IPv6len - IPv4len - 2 THEN ByteMax ELSE 0]

\* net.IP.To4: the 4-byte form of an IPv4 or IPv4-mapped address, else nil.
To4(ip) ==
    IF Len(ip) = IPv4len THEN ip
    ELSE IF Len(ip) = IPv6len /\ SubSeq(ip, 1, IPv6len - IPv4len) = v4InV6Prefix
         THEN SubSeq(ip, IPv6len - IPv4len + 1, IPv6len)
    ELSE Nil

\* net.networkNumberAndMask
networkNumberAndMask(n) ==
    LET ip == IF To4(n.IP) # Nil THEN To4(n.IP) ELSE n.IP
        m  == n.Mask
    IN  IF Len(m) = IPv4len
        THEN IF Len(ip) # IPv4len THEN [ip |-> Nil, m |-> Nil] ELSE [ip |-> ip, m |-> m]
        ELSE IF Len(ip) = IPv4len
             THEN [ip |-> ip, m |-> SubSeq(m, IPv6len - IPv4len + 1, IPv6len)]
             ELSE [ip |-> ip, m |-> m]

\* net.IPNet.Contains
Contains(n, ip) ==
    LET nm == networkNumberAndMask(n)
        x  == IF To4(ip) # Nil THEN To4(ip) ELSE ip
    IN  /\ Len(x) = Len(nm.ip)
        /\ \A i \in 1..Len(x) : ByteAnd(nm.ip[i], nm.m[i]) = ByteAnd(x[i], nm.m[i])

\* net.IP.String: an IPv4 or IPv4-mapped address prints in dotted form, any
\* other address in its IPv6 form.
String(ip) ==
    IF To4(ip) # Nil THEN <<"v4", To4(ip)>> ELSE <<"v6", ip>>

\* ---------------------------------------------------------- pkg/network
GetFirstIPAddressFromIPNet(ipNet) == [i \in 1..Len(ipNet.IP) |-> ipNet.IP[i]]

GetLastIPAddressFromIPNet(ipNet) ==
    [i \in 1..Len(ipNet.IP) |-> ByteOr(ipNet.IP[i], ByteNot(ipNet.Mask[i]))]

\* int(f) for the float64 f = 2^hostBits: exact when it fits an int; otherwise
\* the result is implementation-dependent (the minimum int on amd64, the
\* maximum int where the conversion saturates).
IntOfPow2(hostBits) ==
    IF hostBits <= IntBits - 2 THEN {Pow2(hostBits)} ELSE {MinInt, MaxInt}

CalculateTotalHosts(ipNet) ==
    LET sz == MaskSize(ipNet.Mask)
        hostBits == sz[2] - sz[1]
    IN  IntOfPow2(hostBits)

\* NewSubnetHostsIterator: the iterators it can build for ipNet.
NewSubnetHostsIterator(ipNet) ==
    {[FirstIP    |-> GetFirstIPAddressFromIPNet(ipNet),
      LastIP     |-> GetLastIPAddressFromIPNet(ipNet),
      IPNet      |-> ipNet,
      CurrentIP  |-> Nil,
      TotalHosts |-> t] : t \in CalculateTotalHosts(ipNet)}

\* The carry loop of Next: currentIP[i]++ from the last byte, until a byte
\* does not wrap to zero.
RECURSIVE Increment(_, _)
Increment(ip, i) ==
    IF i < 1 THEN ip
    ELSE LET b == (ip[i] + 1) % ByteMod
             ip2 == [ip EXCEPT ![i] = b]
         IN  IF b > 0 THEN ip2 ELSE Increment(ip2, i - 1)

\* Next: the iterator after the call.  CurrentIP stands for the byte array
\* that it.CurrentIP and every pointer handed out so far refer to; the carry
\* loop writes into that array before the subnet test.
NextState(iter) ==
    IF iter.CurrentIP = Nil
    THEN [iter EXCEPT !.CurrentIP = iter.FirstIP]
    ELSE [iter EXCEPT !.CurrentIP = Increment(iter.CurrentIP, Len(iter.CurrentIP))]

\* Next whose first call already steps past the first address.
NextResult_SkipsFirstIP(iter) ==
    LET from == IF iter.CurrentIP = Nil THEN iter.FirstIP ELSE iter.CurrentIP
        currentIP == Increment(from, Len(from))
    IN  IF ~Contains(iter.IPNet, currentIP) THEN Nil ELSE currentIP

\* Next: the address read through the returned pointer, or Nil.
NextResult(iter) ==
    IF iter.CurrentIP = Nil THEN iter.FirstIP
    ELSE LET currentIP == Increment(iter.CurrentIP, Len(iter.CurrentIP))
         IN  IF ~Contains(iter.IPNet, currentIP) THEN Nil ELSE currentIP

\* -------------------------------------------------------------- Go ints
\* An int result reduced to IntBits bits, two's complement.
WrapInt(x) == ((x - MinInt) % Pow2(IntBits)) + MinInt

GoInt == MinInt..MaxInt

Abs(x) == IF x < 0 THEN 0 - x ELSE x

\* a / b and a % b of Go: the quotient truncates toward zero.
GoDiv(a, b) ==
    LET q == Abs(a) \div Abs(b)
    IN  IF (a < 0) = (b < 0) THEN q ELSE 0 - q

GoRem(a, b) == a - b * GoDiv(a, b)

\* ------------------------------------------------------------ subping
NoError == ""
NoSession == [nil |-> TRUE]

\* logrus.ParseLevel accepts these names.
LogLevels == {"panic", "fatal", "error", "warn", "warning", "info", "debug", "trace"}

\* A Subnet option: the empty string, a text that is no CIDR, or the CIDR
\* text of address ip and prefix length ones.
EmptySubnet == [kind |-> "empty", ip |-> Nil, ones |-> 0]
BadSubnet == [kind |-> "bad", ip |-> Nil, ones |-> 0]
CIDRText(ip, ones) == [kind |-> "cidr", ip |-> ip, ones |-> ones]

\* NewSubnetHostsIteratorFromCIDRString: the iterators it can return, or the
\* error.
NewSubnetHostsIteratorFromCIDRString(cidr) ==
    IF cidr.kind # "cidr"
    THEN {[it |-> NoSession, err |-> "failed to parse CIDR notation"]}
    ELSE {[it |-> i, err |-> NoError] :
            i \in NewSubnetHostsIterator(ParseCIDR(cidr.ip, cidr.ones))}

\* calculateMaxPartitionSize without the round-up of a remainder.
calculateMaxPartitionSize_Floor(dataSize, numPartitions) ==
    LET maxPartitionSize == GoDiv(dataSize, numPartitions)
    IN  IF maxPartitionSize < 0
        THEN [value |-> 0, err |-> "the value exceeds the range of int"]
        ELSE [value |-> maxPartitionSize, err |-> NoError]

\* calculateMaxPartitionSize without the negative-value guard.
calculateMaxPartitionSize_NoGuard(dataSize, numPartitions) ==
    LET quotient  == GoDiv(dataSize, numPartitions)
        remainder == GoRem(dataSize, numPartitions)
    IN  [value |-> IF remainder # 0 THEN WrapInt(quotient + 1) ELSE quotient,
         err |-> NoError]

calculateMaxPartitionSize(dataSize, numPartitions) ==
    LET quotient  == GoDiv(dataSize, numPartitions)
        remainder == GoRem(dataSize, numPartitions)
        maxPartitionSize ==
            IF remainder # 0 THEN WrapInt(quotient + 1) ELSE quotient
    IN  IF maxPartitionSize < 0
        THEN [value |-> 0, err |-> "the value exceeds the range of int"]
        ELSE [value |-> maxPartitionSize, err |-> NoError]

\* isCIEnvironment: some CI variable of the process environment is set.
isCIEnvironment(ci) == ci

\* ping.NewPinger: the mock prober in a CI environment, else the real one.
NewPinger(ci) == IF isCIEnvironment(ci) THEN "mock" ELSE "real"

\* The checks NewSubping and NewSubpingWithPinger open with, in their order:
\* the error of the first one that fails, or NoError.
optionsError_NoTimeoutCheck(o) ==
    IF o.Subnet.kind = "empty"
    THEN "subnet should be in CIDR notation and cannot be empty"
    ELSE IF o.Count < 1 THEN "count should be more than zero (0)"
    ELSE IF o.MaxWorkers < 1 THEN "max workers should be more than zero (0)"
    ELSE IF o.Interval < 0 THEN "interval cannot be negative"
    ELSE NoError

optionsError(o) ==
    IF o.Subnet.kind = "empty"
    THEN "subnet should be in CIDR notation and cannot be empty"
    ELSE IF o.Count < 1 THEN "count should be more than zero (0)"
    ELSE IF o.MaxWorkers < 1 THEN "max workers should be more than zero (0)"
    ELSE IF o.Timeout < 0 THEN "timeout cannot be negative"
    ELSE IF o.Interval < 0 THEN "interval cannot be negative"
    ELSE NoError

\* The body NewSubping and NewSubpingWithPinger share: validation, iterator,
\* batch size, log level, session.  Returns the outcomes [sp, err, opts]
\* (opts: the caller's Options after the call).
Construct(o, pinger) ==
    LET fail(e, o2) == [sp |-> NoSession, err |-> e, opts |-> o2]
    IN
    IF optionsError(o) # NoError
    THEN {fail(optionsError(o), o)}
    ELSE
    {   IF ips.err # NoError
        THEN fail("failed to parse subnet", o)
        ELSE
        LET batchLimit == calculateMaxPartitionSize(ips.it.TotalHosts, o.MaxWorkers)
            o2 == IF o.LogLevel = "" THEN [o EXCEPT !.LogLevel = "error"] ELSE o
        IN  IF batchLimit.err # NoError
            THEN fail(batchLimit.err, o)
            ELSE IF o2.LogLevel \notin LogLevels
            THEN fail("failed to parse log level", o2)
            ELSE [sp |-> [TargetsIterator |-> ips.it,
                          Count           |-> o.Count,
                          Interval        |-> o.Interval,
                          Timeout         |-> o.Timeout,
                          BatchSize       |-> batchLimit.value,
                          MaxWorkers      |-> o.MaxWorkers,
                          Results         |-> {},
                          TotalResults    |-> 0,
                          pinger          |-> pinger,
                          logLevel        |-> o2.LogLevel],
                  err |-> NoError,
                  opts |-> o2]
        : ips \in NewSubnetHostsIteratorFromCIDRString(o.Subnet)
    }

NewSubping(o, ci) == Construct(o, NewPinger(ci))

\* A constructor that makes the queue capacity 1 whatever the host count.
NewSubpingWithPinger_UnitBatch(o, pinger) ==
    {IF r.sp = NoSession THEN r ELSE [r EXCEPT !.sp.BatchSize = 1] :
        r \in Construct(o, pinger)}

NewSubpingWithPinger(o, pinger) == Construct(o, pinger)

\* ------------------------------------------------------------------ ping
\* ping.Result{}
ZeroResult ==
    [AvgRtt |-> 0, PacketLoss |-> 0, PacketsSent |-> 0, PacketsRecv |-> 0,
     PacketsRecvDuplicates |-> 0]

\* What the network does with an echo exchange to a host: "reply" (every echo
\* answered), "silent" (none answered) or "fail" (the exchange cannot be run).
NetworkConditions == {"up", "down", "broken", "mixed"}

\* The last byte of the address a key was printed from.
LastByte(key) == key[2][Len(key[2])]

HostBehaviour(network, target) ==
    CASE network = "up"     -> "reply"
      [] network = "down"   -> "silent"
      [] network = "broken" -> "fail"
      [] OTHER -> IF LastByte(target) % 3 = 0 THEN "reply"
                  ELSE IF LastByte(target) % 3 = 1 THEN "silent"
                  ELSE "fail"

\* realPinger.Ping: the statistics of the exchange, or the zero Result and an
\* error when the exchange cannot be created or run.
realPing(network, ipAddress, count) ==
    CASE HostBehaviour(network, ipAddress) = "fail" ->
            [res |-> ZeroResult, err |-> "ping failed"]
      [] HostBehaviour(network, ipAddress) = "silent" ->
            [res |-> [AvgRtt |-> 0, PacketLoss |-> 100, PacketsSent |-> count,
                      PacketsRecv |-> 0, PacketsRecvDuplicates |-> 0],
             err |-> NoError]
      [] OTHER ->
            [res |-> [AvgRtt |-> 1, PacketLoss |-> 0, PacketsSent |-> count,
                      PacketsRecv |-> count, PacketsRecvDuplicates |-> 0],
             err |-> NoError]

\* s.pinger.Ping(target, s.Count, s.Interval, s.Timeout)
Ping(pinger, network, ipAddress, count) == realPing(network, ipAddress, count)

\* What realPinger.Ping can return: the zero Result and an error when the
\* pinger cannot be created or its Run() fails, else the statistics of the
\* exchange, whatever they are, and no error.
PacketLosses == {0, 50, 100}

Exchanges(count) ==
    [res : {ZeroResult}, err : {"no pinger", "ping failed"}]
    \cup
    [res : [AvgRtt : 0..MaxRtt, PacketLoss : PacketLosses, PacketsSent : 0..count,
            PacketsRecv : 0..count, PacketsRecvDuplicates : 0..1],
     err : {NoError}]

\* Statistics{}
ZeroStatistics ==
    [PacketsRecv |-> 0, PacketsSent |-> 0, PacketsRecvDuplicates |-> 0,
     PacketLoss |-> 0, AvgRtt |-> 0, MinRtt |-> 0, MaxRtt |-> 0, StdDevRtt |-> 0]

\* A conversion that takes the two packet counts from each other's field.
RunPing_SwapsCounts(r) ==
    IF r.err # NoError THEN ZeroStatistics
    ELSE [PacketsSent           |-> r.res.PacketsRecv,
          PacketsRecv           |-> r.res.PacketsSent,
          PacketsRecvDuplicates |-> r.res.PacketsRecvDuplicates,
          PacketLoss            |-> r.res.PacketLoss,
          AvgRtt                |-> r.res.AvgRtt,
          MinRtt                |-> 0,
          MaxRtt                |-> 0,
          StdDevRtt             |-> 0]

\* RunPing, after result, err := pinger.Ping(...) has returned r: the zero
\* Statistics on an error, else the Result converted field by field.
RunPing(r) ==
    IF r.err # NoError THEN ZeroStatistics
    ELSE [PacketsSent           |-> r.res.PacketsSent,
          PacketsRecv           |-> r.res.PacketsRecv,
          PacketsRecvDuplicates |-> r.res.PacketsRecvDuplicates,
          PacketLoss            |-> r.res.PacketLoss,
          AvgRtt                |-> r.res.AvgRtt,
          MinRtt                |-> 0,
          MaxRtt                |-> 0,
          StdDevRtt             |-> 0]

\* A store that keeps only the entry written last.
MapStore_KeepsOnlyLast(m, key, value) == {<<key, value>>}

\* sync.Map.Store / a map assignment m[key] = value, on a map kept as a set
\* of <<key, value>> pairs.
MapStore(m, key, value) == {e \in m : e[1] # key} \cup {<<key, value>>}

MapKeys(m) == {e[1] : e \in m}

\* What is kept of the addresses a Run() has sent or received: the first
\* ones, one more than a whole pass through the short family.
RecordCap == Pow2(AddrBits(IPv4len)) + 1

Record(history, x) == IF Len(history) < RecordCap THEN Append(history, x) ELSE history

\* GetOnlineHosts with the test on PacketsRecv left out.
GetOnlineHosts_Everything(s) ==
    [r |-> s.Results, n |-> Cardinality(MapKeys(s.Results))]

\* GetOnlineHosts: the entries of s.Results with PacketsRecv > 0, copied into
\* a new map r, and len(r).
GetOnlineHosts(s) ==
    LET r == {e \in s.Results : e[2].PacketsRecv > 0}
    IN  [r |-> r, n |-> Cardinality(MapKeys(r))]

\* ------------------------------------------------------------- mockPinger
\* The synthetic prober works on address texts and on the addresses
\* net.ParseIP reads from them, which are kept here at their real width: 16
\* bytes of 8 bits, an IPv4 address in its IPv4-mapped form.
V4(a, b, c, d) == <<0, 0, 0, 0, 0, 0, 0, 0, 0, 0, 255, 255, a, b, c, d>>

\* The IPv6 address h1h2:: ... ::l, given by its first two bytes and its last.
V6(h1, h2, l) == <<h1, h2, 0, 0, 0, 0, 0, 0, 0, 0, 0, 0, 0, 0, 0, l>>

\* net.ParseIP on the texts tried: the address read, or nothing (Nil).
ParsedTexts ==
    { <<"127.0.0.1", V4(127, 0, 0, 1)>>,
      <<"127.255.255.254", V4(127, 255, 255, 254)>>,
      <<"::1", V6(0, 0, 1)>>,
      <<"::ffff:127.0.0.1", V4(127, 0, 0, 1)>>,
      <<"10.0.0.1", V4(10, 0, 0, 1)>>,
      <<"172.16.0.1", V4(172, 16, 0, 1)>>,
      <<"172.31.255.255", V4(172, 31, 255, 255)>>,
      <<"172.32.0.1", V4(172, 32, 0, 1)>>,
      <<"192.168.1.1", V4(192, 168, 1, 1)>>,
      <<"fc00::1", V6(252, 0, 1)>>,
      <<"fd00::1", V6(253, 0, 1)>>,
      <<"fe80::1", V6(254, 128, 1)>>,
      <<"fec0::1", V6(254, 192, 1)>>,
      <<"8.8.8.8", V4(8, 8, 8, 8)>>,
      <<"2001:db8::1", <<32, 1, 13, 184, 0, 0, 0, 0, 0, 0, 0, 0, 0, 0, 0, 1>>>> }

UnparsedTexts == {"localhost", "LOCALHOST", "not-an-ip", "256.1.1.1", ""}

AddressTexts == {e[1] : e \in ParsedTexts} \cup UnparsedTexts

ParseIP(text) ==
    IF \E e \in ParsedTexts : e[1] = text
    THEN (CHOOSE e \in ParsedTexts : e[1] = text)[2]
    ELSE Nil

\* net.IP.To4 at the real width: the last four bytes of an IPv4-mapped
\* address, a four-byte address itself, else nothing.
OctetsTo4(ip) ==
    IF Len(ip) = 4 THEN ip
    ELSE IF /\ Len(ip) = 16
            /\ \A i \in 1..10 : ip[i] = 0
            /\ ip[11] = 255
            /\ ip[12] = 255
         THEN <<ip[13], ip[14], ip[15], ip[16]>>
         ELSE Nil

\* net.IP.IsLoopback: 127.0.0.0/8 for an IPv4 address, else ::1.
IsLoopback(ip) ==
    IF OctetsTo4(ip) # Nil
    THEN OctetsTo4(ip)[1] = 127
    ELSE ip = V6(0, 0, 1)

\* The networks net.ParseCIDR reads from the privateRanges texts: the
\* network number (4 bytes for an IPv4 text, 16 for an IPv6 text) and the
\* number of leading ones of the mask.
privateRanges ==
    << [IP |-> <<10, 0, 0, 0>>, ones |-> 8],
       [IP |-> <<172, 16, 0, 0>>, ones |-> 12],
       [IP |-> <<192, 168, 0, 0>>, ones |-> 16],
       [IP |-> <<252, 0, 0, 0, 0, 0, 0, 0, 0, 0, 0, 0, 0, 0, 0, 0>>, ones |-> 7],
       [IP |-> <<254, 128, 0, 0, 0, 0, 0, 0, 0, 0, 0, 0, 0, 0, 0, 0>>, ones |-> 10] >>

\* net.IPNet.Contains at the real width: the address is first reduced with
\* To4; lengths must agree; then address and network agree on the masked bits.
OctetsContains(network, ip) ==
    LET x == IF OctetsTo4(ip) # Nil THEN OctetsTo4(ip) ELSE ip
        kept(i) == Min(8, Max(0, network.ones - 8 * (i - 1)))
    IN  /\ Len(x) = Len(network.IP)
        /\ \A i \in 1..Len(x) :
              x[i] \div Pow2(8 - kept(i)) = network.IP[i] \div Pow2(8 - kept(i))

\* errors.New(msg): an error is never nil, whatever its message; the nil
\* error is Nil.
errorsNew(msg) == <<msg>>

\* MockPingerConfig.HostConfigs, a map kept as a set of <<key, value>> pairs.
MapHas(m, key) == \E e \in m : e[1] = key
MapGet(m, key) == (CHOOSE e \in m : e[1] = key)[2]

\* The number of binary digits of n >= 0.
RECURSIVE BitLen(_)
BitLen(n) == IF n = 0 THEN 0 ELSE 1 + BitLen(n \div 2)

\* float64(count) for count >= 0: count rounded to MantBits significant
\* binary digits, a tie going to the even neighbour.
Float64(n) ==
    IF BitLen(n) <= MantBits THEN n
    ELSE LET e == BitLen(n) - MantBits
             q == n \div Pow2(e)
             r == n % Pow2(e)
             half == Pow2(e - 1)
             up == r > half \/ (r = half /\ q % 2 = 1)
         IN  (IF up THEN q + 1 ELSE q) * Pow2(e)

\* int(x) for a float x with an integral value: the value if an int holds
\* it, else what the build makes of an out-of-range conversion.
IntOfFloat(x) == IF x \in GoInt THEN {x} ELSE {MinInt, MaxInt}

\* calculateResult. Latencies are in milliseconds; a loss ratio is kept in
\* hundredths, so its percentage packetLoss * 100.0 is the same number, and
\* the product float64(count) * (1.0 - packetLoss) is truncated toward zero
\* by int(). The results are those the builds can give.
calculateResult(count, latency, packetLoss) ==
    { [AvgRtt |-> latency,
       PacketLoss |-> packetLoss,
       PacketsSent |-> count,
       PacketsRecv |-> IF packetsRecv < 0 THEN 0 ELSE packetsRecv,
       PacketsRecvDuplicates |-> 0] :
      packetsRecv \in IntOfFloat(GoDiv(Float64(count) * (100 - packetLoss), 100)) }

isLocalhost(ipAddress) ==
    IF ParseIP(ipAddress) = Nil
    THEN ipAddress = "localhost"
    ELSE \/ ipAddress = "localhost"
         \/ ipAddress = "127.0.0.1"
         \/ ipAddress = "::1"
         \/ IsLoopback(ParseIP(ipAddress))

isPrivateIP(ipAddress) ==
    IF ParseIP(ipAddress) = Nil
    THEN FALSE
    ELSE \E i \in 1..Len(privateRanges) :
            OctetsContains(privateRanges[i], ParseIP(ipAddress))

\* mockPinger.Ping, its parts: the address check, the answer from a host
\* configuration, and the answer from the pattern of the address.
invalidAddress(ipAddress) == ParseIP(ipAddress) = Nil /\ ipAddress # "localhost"

pingInvalid == {[res |-> ZeroResult, err |-> errorsNew("invalid IP address")]}

pingByHostConfig(hostConfig, count) ==
    IF hostConfig.ShouldError
    THEN {[res |-> ZeroResult, err |-> errorsNew(hostConfig.ErrorMsg)]}
    ELSE {[res |-> r, err |-> Nil] :
            r \in calculateResult(count, hostConfig.Latency, hostConfig.PacketLoss)}

pingByPattern(config, ipAddress, count) ==
    IF isLocalhost(ipAddress)
    THEN {[res |-> r, err |-> Nil] : r \in calculateResult(count, 1, 0)}
    ELSE IF isPrivateIP(ipAddress)
    THEN {[res |-> r, err |-> Nil] :
            r \in calculateResult(count, config.DefaultLatency, config.DefaultPacketLoss)}
    ELSE {[res |-> r, err |-> Nil] : r \in calculateResult(count, 50, 10)}

\* A Ping that looks up the host configuration before it checks the address.
mockPing_HostConfigFirst(config, ipAddress, count) ==
    IF MapHas(config.HostConfigs, ipAddress)
    THEN pingByHostConfig(MapGet(config.HostConfigs, ipAddress), count)
    ELSE IF invalidAddress(ipAddress) THEN pingInvalid
    ELSE pingByPattern(config, ipAddress, count)

\* A Ping that answers for a loopback address before it looks up the host
\* configuration.
mockPing_LoopbackFirst(config, ipAddress, count) ==
    IF invalidAddress(ipAddress) THEN pingInvalid
    ELSE IF isLocalhost(ipAddress)
    THEN {[res |-> r, err |-> Nil] : r \in calculateResult(count, 1, 0)}
    ELSE IF MapHas(config.HostConfigs, ipAddress)
    THEN pingByHostConfig(MapGet(config.HostConfigs, ipAddress), count)
    ELSE pingByPattern(config, ipAddress, count)

\* mockPinger.Ping(ipAddress, count, interval, timeout): the (Result, error)
\* pairs it can return. The interval and the timeout are not read, and the
\* sleep of SimulateTiming changes nothing.
mockPing(config, ipAddress, count) ==
    IF invalidAddress(ipAddress) THEN pingInvalid
    ELSE IF MapHas(config.HostConfigs, ipAddress)
    THEN pingByHostConfig(MapGet(config.HostConfigs, ipAddress), count)
    ELSE pingByPattern(config, ipAddress, count)

\* NewMockPinger(): 10ms, no loss, no host configuration, timing simulated.
NewMockPinger ==
    [DefaultLatency |-> 10, DefaultPacketLoss |-> 0, HostConfigs |-> {},
     SimulateTiming |-> TRUE]

\* SetHostConfig / ClearHostConfigs
SetHostConfig(config, ipAddress, hostConfig) ==
    [config EXCEPT !.HostConfigs = MapStore(config.HostConfigs, ipAddress, hostConfig)]

ClearHostConfigs(config) == [config EXCEPT !.HostConfigs = {}]

\* ------------------------------------------------------------------ state
VARIABLES
    it,         \* a SubnetHostsIterator driven on its own
    ret,        \* what the last Next() returned (NoRet before the first call)
    out,        \* the addresses Next() has returned so far, in order
    nilCalls,   \* how many Next() calls have returned nil
    pc,         \* where the caller is
    opts,       \* the Options handed to the constructor
    ci,         \* whether the process environment has a CI variable set
    sp,         \* the *Subping the constructor returned (NoSession: nil)
    err,        \* the error the last call returned (NoError: nil)
    part,       \* a calculateMaxPartitionSize call: arguments and results
    network,    \* how the hosts answer the real prober
    jobChannel, \* Run: the buffered channel's queue
    closed,     \* Run: jobChannel has been closed
    wg,         \* Run: the WaitGroup counter
    ipString,   \* Run: the producer's ipString
    wpc,        \* startWorker: where each worker is
    target,     \* startWorker: each worker's target
    p,          \* startWorker: each worker's p
    syncMap,    \* Run: the sync.Map the workers store into
    runs,       \* how many times Run() has been called on the session
    probed,     \* this Run: the <<target, Result, error>> the Ping calls returned
    stored,     \* this Run: the <<target, Result>> the workers gave to Store
    online,     \* what the last GetOnlineHosts() returned (NoCall before)
    mock,       \* a mockPinger.Ping call: receiver, arguments and results
    call,       \* a call of a function of the ping or network package
    callers,    \* the goroutines that share one SubnetHostsIterator
    sched,      \* a Run() of one of the list-based schedulers
    sent,       \* this Run: the addresses put on jobChannel, in order
    pulled,     \* this Run: the addresses taken from jobChannel, in order
    probes      \* this Run: how often Ping was called per target (1, or 2 for more)

iterVars == <<it, ret, out, nilCalls>>
newVars == <<opts, ci, sp, err, part>>
runVars == <<network, jobChannel, closed, wg, ipString, wpc, target, p, syncMap>>
toolVars == <<call, callers, sched>>
queueVars == <<sent, pulled, probes>>
sessionVars == <<runs, probed, stored, online, mock, queueVars>>
callVars == <<runs, probed, stored, online, mock, toolVars, queueVars>>
vars == <<it, ret, out, nilCalls, pc, opts, ci, sp, err, part,
          network, jobChannel, closed, wg, ipString, wpc, target, p, syncMap,
          runs, probed, stored, online, mock, call, callers, sched,
          sent, pulled, probes>>

NoIterator == [nil |-> TRUE]
NoOptions == [nil |-> TRUE]
NoPart == [nil |-> TRUE]
NoCall == [nil |-> TRUE]

IterIdle ==
    /\ it = NoIterator
    /\ ret = NoRet
    /\ out = <<>>
    /\ nilCalls = 0

RunIdle ==
    /\ network = "up"
    /\ jobChannel = <<>>
    /\ closed = FALSE
    /\ wg = 0
    /\ ipString = <<>>
    /\ wpc = <<>>
    /\ target = <<>>
    /\ p = <<>>
    /\ syncMap = {}

ToolIdle ==
    /\ call = NoCall
    /\ callers = NoCall
    /\ sched = NoCall

QueueIdle ==
    /\ sent = <<>>
    /\ pulled = <<>>
    /\ probes = {}

SessionIdle ==
    /\ runs = 0
    /\ probed = {}
    /\ stored = {}
    /\ online = NoCall
    /\ mock = NoCall
    /\ QueueIdle

CallIdle ==
    /\ runs = 0
    /\ probed = {}
    /\ stored = {}
    /\ online = NoCall
    /\ mock = NoCall
    /\ ToolIdle
    /\ QueueIdle

NewIdle ==
    /\ opts = NoOptions
    /\ ci = FALSE
    /\ sp = NoSession
    /\ err = NoError
    /\ part = NoPart

\* ------------------------------------------------------- iterator driver
InitIter ==
    /\ it \in UNION {NewSubnetHostsIterator(n) : n \in CIDRs}
    /\ ret = NoRet
    /\ out = <<>>
    /\ nilCalls = 0
    /\ pc = "iterate"
    /\ NewIdle
    /\ RunIdle
    /\ CallIdle

\* for ip := it.Next(); ...; ip = it.Next()
Next ==
    /\ pc = "iterate"
    /\ nilCalls < MaxExtraCalls
    /\ Len(out) + nilCalls < Pow2(AddrBits(Len(it.FirstIP))) + MaxExtraCalls
    /\ it' = NextState(it)
    /\ ret' = NextResult(it)
    /\ out' = IF NextResult(it) = Nil THEN out ELSE Append(out, NextResult(it))
    /\ nilCalls' = IF NextResult(it) = Nil THEN nilCalls + 1 ELSE nilCalls
    /\ UNCHANGED <<pc, newVars, runVars, callVars>>

NextIter == Next

SpecIter == InitIter /\ [][NextIter]_vars

\* ---------------------------------------------- constructor and sizer calls
\* The address texts the Subnet option is drawn from: with and without host
\* bits set, inside and outside the IPv4-mapped range of the long family.
TextAddrs ==
    { <<1, 2>>, <<3, 3>>, <<0, 3, 3, 3, 3>>, <<1, 0, 0, 0, 1>> }

SubnetTexts ==
    {EmptySubnet, BadSubnet} \cup
    {CIDRText(a, n) : <<a, n>> \in
        {<<x, m>> \in TextAddrs \X (0..AddrBits(IPv6len)) : m <= AddrBits(Len(x))}}

OptionsTried ==
    [Subnet     : SubnetTexts,
     Count      : (0 - 1)..MaxCount,
     Interval   : (0 - 1)..MaxDuration,
     Timeout    : (0 - 1)..MaxDuration,
     MaxWorkers : {0 - 2} \cup (0..MaxWorkersOpt),
     LogLevel   : {"", "error", "bogus"}]

Pingers == {"real", "mock"}

\* The (dataSize, numPartitions) pairs tried: every int with the partition
\* counts 1..MaxPartitions, 2^(IntBits-2) and the largest int.
PartitionArgs ==
    GoInt \X ((1..MaxPartitions) \cup {Pow2(IntBits - 2), MaxInt})

InitNew ==
    /\ IterIdle
    /\ RunIdle
    /\ CallIdle
    /\ ci \in BOOLEAN
    /\ sp = NoSession
    /\ err = NoError
    /\ \/ /\ pc = "new"
          /\ opts \in OptionsTried
          /\ part = NoPart
       \/ /\ pc = "size"
          /\ ci = FALSE
          /\ opts = NoOptions
          /\ part \in {[dataSize |-> a[1], numPartitions |-> a[2], value |-> 0] :
                          a \in PartitionArgs}

\* sp, err := NewSubping(opts)
CallNewSubping ==
    /\ pc = "new"
    /\ \E r \in NewSubping(opts, ci) :
        /\ sp' = r.sp
        /\ err' = r.err
        /\ opts' = r.opts
    /\ pc' = "NewSubping"
    /\ UNCHANGED <<callVars, iterVars, runVars, ci, part>>

\* sp, err := NewSubpingWithPinger(opts, pinger)
CallNewSubpingWithPinger ==
    /\ pc = "new"
    /\ \E pinger \in Pingers :
       \E r \in NewSubpingWithPinger(opts, pinger) :
        /\ sp' = r.sp
        /\ err' = r.err
        /\ opts' = r.opts
    /\ pc' = "NewSubpingWithPinger"
    /\ UNCHANGED <<callVars, iterVars, runVars, ci, part>>

\* value, err := calculateMaxPartitionSize(dataSize, numPartitions)
CallCalculateMaxPartitionSize ==
    /\ pc = "size"
    /\ LET r == calculateMaxPartitionSize(part.dataSize, part.numPartitions)
       IN  /\ part' = [part EXCEPT !.value = r.value]
           /\ err' = r.err
    /\ pc' = "sized"
    /\ UNCHANGED <<callVars, iterVars, runVars, opts, ci, sp>>

NextNew ==
    \/ CallNewSubping
    \/ CallNewSubpingWithPinger
    \/ CallCalculateMaxPartitionSize

SpecNew == InitNew /\ [][NextNew]_vars

\* ------------------------------------------------------ mockPinger calls
\* The configurations NewMockPingerWithConfig is given: the defaults of
\* NewMockPinger, or a slower and lossy private network.
MockConfigs ==
    {NewMockPinger} \cup
    [DefaultLatency : {20}, DefaultPacketLoss : {0, 50}, HostConfigs : {{}},
     SimulateTiming : {FALSE}]

\* The host configurations set: answering with a loss ratio of 0, 0.5 or 1
\* (in hundredths), or failing with a message that may be empty.
HostConfigsTried ==
    [Latency : {5}, PacketLoss : {0, 50, 100}, ShouldError : {FALSE}, ErrorMsg : {""}]
    \cup
    [Latency : {0}, PacketLoss : {0}, ShouldError : {TRUE}, ErrorMsg : {"", "host down"}]

\* The texts a host configuration is set for.
OverrideKeys == {"127.0.0.1", "localhost", "10.0.0.1", "8.8.8.8", "not-an-ip"}

\* The counts Ping is called with: small ones, the first the float
\* conversion rounds (down), the first it rounds up, and the largest int.
PingCounts ==
    (1..MaxPingCount) \cup
    {10, Pow2(MantBits), Pow2(MantBits) + 1, Pow2(MantBits) + 3, MaxInt}

\* The builds of the program: they differ in what int() makes of a float
\* out of the range of int, the smallest int or the nearest one.  Which build
\* runs is fixed for the program, and shows only once such a conversion has
\* happened.  Of the outcomes a Ping can have, the one a build gives.
Builds == {"wrapping", "saturating"}

\* The builds a call with these outcomes can still tell apart.
BuildsLeft(observed, outcomes) ==
    IF observed \in Builds THEN {observed}
    ELSE IF Cardinality(outcomes) > 1 THEN Builds
    ELSE {observed}

\* The interval and timeout arguments of a repeated call.
Timings == {<<0, 0>>, <<MaxDuration, MaxDuration>>}

OnBuild(build, outcomes) ==
    IF Cardinality(outcomes) = 1 THEN CHOOSE r \in outcomes : TRUE
    ELSE CHOOSE r \in outcomes :
            \A q \in outcomes :
                IF build = "wrapping" THEN r.res.PacketsRecv <= q.res.PacketsRecv
                ELSE r.res.PacketsRecv >= q.res.PacketsRecv

InitMock ==
    /\ IterIdle
    /\ NewIdle
    /\ RunIdle
    /\ runs = 0
    /\ probed = {}
    /\ stored = {}
    /\ online = NoCall
    /\ ToolIdle
    /\ QueueIdle
    /\ pc = "mock"
    /\ \E c \in MockConfigs :
        mock = [config |-> c, build |-> "unobserved", call |-> NoCall, again |-> NoCall]

\* p.SetHostConfig(ipAddress, config)
CallSetHostConfig ==
    /\ pc = "mock"
    /\ \E k \in OverrideKeys : \E h \in HostConfigsTried :
        /\ \/ MapHas(mock.config.HostConfigs, k)
           \/ Cardinality(mock.config.HostConfigs) < MaxOverrides
        /\ mock' = [mock EXCEPT !.config = SetHostConfig(mock.config, k, h)]
    /\ UNCHANGED <<iterVars, newVars, runVars, pc, runs, probed, stored, online, toolVars, queueVars>>

\* p.ClearHostConfigs()
CallClearHostConfigs ==
    /\ pc = "mock"
    /\ mock' = [mock EXCEPT !.config = ClearHostConfigs(mock.config)]
    /\ UNCHANGED <<iterVars, newVars, runVars, pc, runs, probed, stored, online, toolVars, queueVars>>

\* res, err := p.Ping(ipAddress, count, interval, timeout), the call the
\* prober was configured for.
CallMockPing ==
    /\ pc = "mock"
    /\ \E a \in AddressTexts : \E n \in PingCounts :
        LET outcomes == mockPing(mock.config, a, n)
        IN  \E b \in BuildsLeft(mock.build, outcomes) :
        LET r == OnBuild(b, outcomes)
        IN  mock' = [mock EXCEPT !.call =
                        [ipAddress |-> a, count |-> n, interval |-> 0, timeout |-> 0,
                         res |-> r.res, err |-> r.err],
                                 !.build = b]
    /\ pc' = "pinged"
    /\ UNCHANGED <<iterVars, newVars, runVars, runs, probed, stored, online, toolVars, queueVars>>

\* A second call whose int() conversions follow either build.
CallMockPingAgain_AnyBuild ==
    /\ pc = "pinged"
    /\ \E timing \in Timings :
       \E r \in mockPing(mock.config, mock.call.ipAddress, mock.call.count) :
        mock' = [mock EXCEPT !.again =
                    [ipAddress |-> mock.call.ipAddress, count |-> mock.call.count,
                     interval |-> timing[1], timeout |-> timing[2],
                     res |-> r.res, err |-> r.err]]
    /\ pc' = "repeated"
    /\ UNCHANGED <<iterVars, newVars, runVars, runs, probed, stored, online, toolVars, queueVars>>

\* res, err := p.Ping(ipAddress, count, interval, timeout) once more, by any
\* goroutine: the same address text and count, any interval and timeout, the
\* configuration as it was.
CallMockPingAgain ==
    /\ pc = "pinged"
    /\ LET outcomes == mockPing(mock.config, mock.call.ipAddress, mock.call.count)
       IN  \E b \in BuildsLeft(mock.build, outcomes) :
            LET r == OnBuild(b, outcomes)
            IN  \E timing \in Timings :
                    mock' = [mock EXCEPT !.again =
                                [ipAddress |-> mock.call.ipAddress,
                                 count |-> mock.call.count,
                                 interval |-> timing[1], timeout |-> timing[2],
                                 res |-> r.res, err |-> r.err]]
    /\ pc' = "repeated"
    /\ UNCHANGED <<iterVars, newVars, runVars, runs, probed, stored, online, toolVars, queueVars>>

NextMock ==
    \/ CallSetHostConfig
    \/ CallClearHostConfigs
    \/ CallMockPing
    \/ CallMockPingAgain

SpecMock == InitMock /\ [][NextMock]_vars

\* --------------------------------------------------- driver of ping.RunPing
PingTargets == {<<"v4", <<1, 2>>>>, <<"v6", <<1, 0, 0, 0, 1>>>>}

InitPing ==
    /\ IterIdle
    /\ NewIdle
    /\ RunIdle
    /\ SessionIdle
    /\ ToolIdle
    /\ pc = "ping"

\* stats := ping.RunPing(ipAddress, count, interval, timeout)
CallRunPing ==
    /\ pc = "ping"
    /\ \E a \in PingTargets : \E n \in 1..MaxPingCount : \E r \in Exchanges(n) :
        call' = [ipAddress |-> a, count |-> n, result |-> r.res, err |-> r.err,
                 stats |-> RunPing(r)]
    /\ UNCHANGED <<iterVars, newVars, runVars, pc, sessionVars, callers, sched>>

NextPing == CallRunPing

SpecPing == InitPing /\ [][NextPing]_vars

\* ------------------------------------------- the list-based schedulers
\* partitionSlice (the same in both schedulers): chunks of
\* chunkSize = int(math.Ceil(float64(arrSize) / float64(numPartitions)))
\* taken from the front of arr; the quotient of the two floats is exact for
\* the sizes followed here.
RECURSIVE partitionFrom(_, _, _)
partitionFrom(arr, chunkSize, i) ==
    IF i >= Len(arr) THEN <<>>
    ELSE LET end == Min(i + chunkSize, Len(arr))
         IN  <<SubSeq(arr, i + 1, end)>> \o partitionFrom(arr, chunkSize, i + chunkSize)

\* A chunk size rounded down instead of up.
partitionSlice_Floor(arr, numPartitions) ==
    LET a == Float64(Len(arr))
        n == Float64(numPartitions)
        chunkSize == Max(a \div n, 1)
    IN  partitionFrom(arr, chunkSize, 0)

partitionSlice(arr, numPartitions) ==
    LET a == Float64(Len(arr))
        n == Float64(numPartitions)
        chunkSize == (a + n - 1) \div n
    IN  partitionFrom(arr, chunkSize, 0)

\* RunPing of src/subping.go: the statistics of the exchange, or
\* ping.Statistics{} when the pinger cannot be made or run; RunPing of the
\* earliest scheduler returns a pointer, nil in those cases.
listRunPing(guarded, net, t, count) ==
    LET r == realPing(net, String(t), count)
    IN  IF r.err = NoError THEN r.res
        ELSE IF guarded THEN ZeroResult ELSE Nil

\* startJob, the loop over its targets: result[target.String()] = p
RECURSIVE jobResult(_, _, _, _)
jobResult(guarded, net, targets, count) ==
    IF targets = <<>> THEN {}
    ELSE LET n == Len(targets)
         IN  MapStore(jobResult(guarded, net, SubSeq(targets, 1, n - 1), count),
                      String(targets[n]),
                      listRunPing(guarded, net, targets[n], count))

\* The function literal at the end of Run: the maps of the slice flattened
\* into one, a later map's entry replacing an earlier one's.
RECURSIVE flattened(_)
flattened(s) ==
    IF s = <<>> THEN {}
    ELSE LET n == Len(s)
         IN  {e \in flattened(SubSeq(s, 1, n - 1)) : ~MapHas(s[n], e[1])} \cup s[n]

\* Target lists: up to MaxTargets addresses, no two of them Equal, in either
\* byte form.
TargetPool == {<<1, 0>>, <<1, 1>>, <<0, 3, 3, 1, 2>>}

TargetLists ==
    {t \in UNION {[1..n -> TargetPool] : n \in 1..MaxTargets} :
        \A i, j \in 1..Len(t) : i # j => String(t[i]) # String(t[j])}

\* NewSubping of a list-based scheduler, on valid options: the session, with
\* PartitionedTargets set where the constructor sets it (src/subping.go),
\* and the locals of a Run() not yet called.
NewListSubping(guarded, targets, numJobs) ==
    [guarded |-> guarded, Targets |-> targets, Count |-> 1, NumJobs |-> numJobs,
     PartitionedTargets |-> IF guarded THEN partitionSlice(targets, numJobs) ELSE <<>>,
     Results |-> Nil, at |-> "created", wg |-> 0, mutex |-> 0,
     resultsFromRoutines |-> <<>>, job |-> <<>>]

InitList ==
    /\ IterIdle
    /\ NewIdle
    /\ network = "mixed"
    /\ jobChannel = <<>>
    /\ closed = FALSE
    /\ wg = 0
    /\ ipString = <<>>
    /\ wpc = <<>>
    /\ target = <<>>
    /\ p = <<>>
    /\ syncMap = {}
    /\ SessionIdle
    /\ call = NoCall
    /\ callers = NoCall
    /\ pc = "list"
    /\ \E t \in TargetLists : \E n \in 1..MaxNumJobs :
        sched = NewListSubping(TRUE, t, n)

InitEarly ==
    /\ IterIdle
    /\ NewIdle
    /\ network = "mixed"
    /\ jobChannel = <<>>
    /\ closed = FALSE
    /\ wg = 0
    /\ ipString = <<>>
    /\ wpc = <<>>
    /\ target = <<>>
    /\ p = <<>>
    /\ syncMap = {}
    /\ SessionIdle
    /\ call = NoCall
    /\ callers = NoCall
    /\ pc = "list"
    /\ \E t \in TargetLists : \E n \in 1..MaxNumJobs :
        sched = NewListSubping(FALSE, t, n)

\* Run, entry: the earliest scheduler partitions its targets here.
ListRun ==
    /\ sched.at = "created"
    /\ LET parts == IF sched.guarded THEN sched.PartitionedTargets
                    ELSE partitionSlice(sched.Targets, sched.NumJobs)
       IN  sched' = [sched EXCEPT
                !.PartitionedTargets = parts,
                !.job = [j \in 1..Len(parts) |->
                            [at |-> "unborn", result |-> {}, hdr |-> <<>>]],
                !.at = "spawn"]
    /\ UNCHANGED <<iterVars, newVars, runVars, pc, sessionVars, call, callers>>

\* Run, the loop over the partitions: wg.Add(1); go startJob(job)
ListSpawn ==
    /\ sched.at = "spawn"
    /\ LET unborn == {k \in DOMAIN sched.job : sched.job[k].at = "unborn"}
       IN  IF unborn # {}
           THEN LET j == CHOOSE k \in unborn : \A m \in unborn : k <= m
                IN  sched' = [sched EXCEPT !.wg = sched.wg + 1, !.job[j].at = "ping"]
           ELSE sched' = [sched EXCEPT !.at = "wait"]
    /\ UNCHANGED <<iterVars, newVars, runVars, pc, sessionVars, call, callers>>

\* startJob: the pings of its partition, into its own map.
startJobPing(j) ==
    /\ sched.at \in {"spawn", "wait"}
    /\ sched.job[j].at = "ping"
    /\ sched' = [sched EXCEPT
            !.job[j].result = jobResult(sched.guarded, network,
                                        sched.PartitionedTargets[j], sched.Count),
            !.job[j].at = IF sched.guarded THEN "lock" ELSE "load"]
    /\ UNCHANGED <<iterVars, newVars, runVars, pc, sessionVars, call, callers>>

\* A Lock() that does not wait for the mutex to be free.
startJobLock_NoWait(j) ==
    /\ sched.at \in {"spawn", "wait"}
    /\ sched.job[j].at = "lock"
    /\ sched' = [sched EXCEPT !.mutex = j, !.job[j].at = "load"]
    /\ UNCHANGED <<iterVars, newVars, runVars, pc, sessionVars, call, callers>>

\* startJob of src/subping.go: mutex.Lock()
startJobLock(j) ==
    /\ sched.at \in {"spawn", "wait"}
    /\ sched.job[j].at = "lock"
    /\ sched.mutex = 0
    /\ sched' = [sched EXCEPT !.mutex = j, !.job[j].at = "load"]
    /\ UNCHANGED <<iterVars, newVars, runVars, pc, sessionVars, call, callers>>

\* startJob, append(resultsFromRoutines, result): the slice is read.
startJobLoad(j) ==
    /\ sched.at \in {"spawn", "wait"}
    /\ sched.job[j].at = "load"
    /\ sched' = [sched EXCEPT !.job[j].hdr = sched.resultsFromRoutines,
                              !.job[j].at = "append"]
    /\ UNCHANGED <<iterVars, newVars, runVars, pc, sessionVars, call, callers>>

\* startJob, resultsFromRoutines = append(...): the slice read, with the map
\* at its end, is assigned; then mutex.Unlock() where there is a mutex, and
\* the deferred wg.Done().
startJobAppend(j) ==
    /\ sched.at \in {"spawn", "wait"}
    /\ sched.job[j].at = "append"
    /\ sched' = [sched EXCEPT
            !.resultsFromRoutines = Append(sched.job[j].hdr, sched.job[j].result),
            !.mutex = IF sched.guarded THEN 0 ELSE sched.mutex,
            !.wg = sched.wg - 1,
            !.job[j].at = "exited"]
    /\ UNCHANGED <<iterVars, newVars, runVars, pc, sessionVars, call, callers>>

\* Run: wg.Wait() returns and the slice is flattened into Results.
ListCollect ==
    /\ sched.at = "wait"
    /\ sched.wg = 0
    /\ sched' = [sched EXCEPT !.Results = flattened(sched.resultsFromRoutines),
                              !.at = "done"]
    /\ UNCHANGED <<iterVars, newVars, runVars, pc, sessionVars, call, callers>>

NextList ==
    \/ ListRun
    \/ ListSpawn
    \/ ListCollect
    \/ \E j \in DOMAIN sched.job :
        startJobPing(j) \/ startJobLock(j) \/ startJobLoad(j) \/ startJobAppend(j)

NextEarly ==
    \/ ListRun
    \/ ListSpawn
    \/ ListCollect
    \/ \E j \in DOMAIN sched.job :
        startJobPing(j) \/ startJobLoad(j) \/ startJobAppend(j)

SpecList == InitList /\ [][NextList]_vars

SpecEarly == InitEarly /\ [][NextEarly]_vars

\* ------------------------------------------------ driver of partitionSlice
\* The slices partitioned: every list of up to MaxTargets addresses of the
\* pool, the empty one included, into 1..MaxNumJobs partitions or as many as
\* an int can count.
InitPart ==
    /\ IterIdle
    /\ NewIdle
    /\ RunIdle
    /\ SessionIdle
    /\ ToolIdle
    /\ pc = "part"

\* result := partitionSlice(arr, numPartitions)
CallPartitionSlice ==
    /\ pc = "part"
    /\ \E arr \in UNION {[1..n -> TargetPool] : n \in 0..MaxTargets} :
       \E numPartitions \in (1..MaxNumJobs) \cup {MaxInt} :
        call' = [arr |-> arr, numPartitions |-> numPartitions,
                 result |-> partitionSlice(arr, numPartitions)]
    /\ UNCHANGED <<iterVars, newVars, runVars, pc, sessionVars, callers, sched>>

NextPart == CallPartitionSlice

SpecPart == InitPart /\ [][NextPart]_vars

\* ------------------------------ goroutines sharing a SubnetHostsIterator
\* Each goroutine runs for ip := it.Next(); ip != nil; ip = it.Next() and
\* copies *ip in the loop body.  it.CurrentIP stands for the one byte array
\* that every pointer Next() has returned refers to; callers.mu is the
\* goroutine holding it.mu, 0 when it is free.
Goroutines == 1..MaxCallers

SharedSubnets ==
    { ParseCIDR(<<2, 0>>, 1), ParseCIDR(<<1, 2>>, 2), ParseCIDR(<<0, 3>>, 2),
      ParseCIDR(<<3, 3>>, 3), ParseCIDR(<<1, 0, 0, 0, 1>>, 9) }

InitShared ==
    /\ it \in UNION {NewSubnetHostsIterator(n) : n \in SharedSubnets}
    /\ ret = NoRet
    /\ out = <<>>
    /\ nilCalls = 0
    /\ pc = "shared"
    /\ NewIdle
    /\ RunIdle
    /\ SessionIdle
    /\ call = NoCall
    /\ sched = NoCall
    /\ callers = [mu |-> 0,
                  g  |-> [k \in Goroutines |->
                            [at |-> "call", i |-> 0, buf |-> {}, seen |-> <<>>]]]

\* Next, from it.mu.Lock() on: the first call copies FirstIP, returns
\* it.CurrentIP and unlocks; any other call goes on to its carry loop with
\* the mutex held.
NextLock(k) ==
    /\ pc = "shared"
    /\ callers.g[k].at = "call"
    /\ callers.mu = 0
    /\ IF it.CurrentIP = Nil
       THEN /\ it' = [it EXCEPT !.CurrentIP = it.FirstIP]
            /\ callers' = [callers EXCEPT !.g[k].at = "copy"]
       ELSE /\ callers' = [callers EXCEPT !.mu = k, !.g[k].at = "carry",
                                          !.g[k].i = Len(it.CurrentIP)]
            /\ UNCHANGED it
    /\ UNCHANGED <<ret, out, nilCalls, pc, newVars, runVars, sessionVars, call, sched>>

\* Next, one round of the carry loop: currentIP[i]++ on the shared array, and
\* break if the byte did not wrap.
NextCarry(k) ==
    /\ pc = "shared"
    /\ callers.g[k].at = "carry"
    /\ LET i == callers.g[k].i
           b == (it.CurrentIP[i] + 1) % ByteMod
       IN  /\ it' = [it EXCEPT !.CurrentIP[i] = b]
           /\ callers' = IF b > 0 \/ i = 1
                         THEN [callers EXCEPT !.g[k].at = "test"]
                         ELSE [callers EXCEPT !.g[k].i = i - 1]
    /\ UNCHANGED <<ret, out, nilCalls, pc, newVars, runVars, sessionVars, call, sched>>

\* Next: the subnet test, the return of nil or of &currentIP, and the
\* deferred it.mu.Unlock().
NextUnlock(k) ==
    /\ pc = "shared"
    /\ callers.g[k].at = "test"
    /\ callers' = [callers EXCEPT
                     !.mu = 0,
                     !.g[k].at = IF Contains(it.IPNet, it.CurrentIP)
                                 THEN "copy" ELSE "ended"]
    /\ UNCHANGED <<iterVars, pc, newVars, runVars, sessionVars, call, sched>>

\* The caller's loop body: one byte of *ip is read, in no fixed order and
\* without the mutex; with the last byte the address is noted and the next
\* call of Next() is due.
LoadByte(k) ==
    /\ pc = "shared"
    /\ callers.g[k].at = "copy"
    /\ \E i \in 1..Len(it.CurrentIP) :
        /\ ~MapHas(callers.g[k].buf, i)
        /\ LET buf == callers.g[k].buf \cup {<<i, it.CurrentIP[i]>>}
           IN  IF Cardinality(buf) < Len(it.CurrentIP)
               THEN callers' = [callers EXCEPT !.g[k].buf = buf]
               ELSE callers' = [callers EXCEPT
                        !.g[k].buf = {},
                        !.g[k].at = "call",
                        !.g[k].seen = Append(callers.g[k].seen,
                            [j \in 1..Len(it.CurrentIP) |-> MapGet(buf, j)])]
    /\ UNCHANGED <<iterVars, pc, newVars, runVars, sessionVars, call, sched>>

NextShared ==
    \E k \in Goroutines : NextLock(k) \/ NextCarry(k) \/ NextUnlock(k) \/ LoadByte(k)

SpecShared == InitShared /\ [][NextShared]_vars

\* --------------------------- driver of network.GenerateIPListFromCIDRString
InitGen ==
    /\ IterIdle
    /\ NewIdle
    /\ RunIdle
    /\ SessionIdle
    /\ ToolIdle
    /\ pc = "gen"

\* ips, err := network.GenerateIPListFromCIDRString(cidr), up to the loop of
\* GenerateIPListFromCIDR: net.ParseCIDR, the error return with an empty
\* list, or firstIP as a copy of cidr.IP and ip := firstIP.
GenerateIPListFromCIDRString ==
    /\ pc = "gen"
    /\ call = NoCall
    /\ \E cidr \in SubnetTexts :
        call' = IF cidr.kind # "cidr"
                THEN [cidr |-> cidr, ipNet |-> Nil, ip |-> Nil, ips |-> <<>>,
                      err |-> "Failed to parse CIDR notation", at |-> "returned"]
                ELSE LET ipNet == ParseCIDR(cidr.ip, cidr.ones)
                     IN  [cidr |-> cidr, ipNet |-> ipNet,
                          ip |-> [i \in 1..Len(ipNet.IP) |-> ipNet.IP[i]],
                          ips |-> <<>>, err |-> NoError, at |-> "loop"]
    /\ UNCHANGED <<iterVars, newVars, runVars, pc, sessionVars, callers, sched>>

\* GenerateIPListFromCIDR, one round of for ip := firstIP; cidr.Contains(ip);
\* inc(ip): a copy of ip is appended and ip is incremented in place, or the
\* loop ends and the list is returned.
GenerateIPListFromCIDR ==
    /\ pc = "gen"
    /\ call # NoCall
    /\ call.at = "loop"
    /\ IF Contains(call.ipNet, call.ip)
       THEN /\ Len(call.ips) < MaxListLen
            /\ call' = [call EXCEPT !.ips = Append(call.ips, call.ip),
                                    !.ip = Increment(call.ip, Len(call.ip))]
       ELSE call' = [call EXCEPT !.at = "returned"]
    /\ UNCHANGED <<iterVars, newVars, runVars, pc, sessionVars, callers, sched>>

NextGen ==
    \/ GenerateIPListFromCIDRString
    \/ GenerateIPListFromCIDR

SpecGen == InitGen /\ [][NextGen]_vars

\* -------------------------------------------------------------------- Run
\* The subnets scanned by a pool of 1..MaxRunWorkers workers: one, two and
\* four hosts of the short family (the first ends at the all-ones address),
\* and of the long family one IPv4-mapped host and two hosts.
SmallSubnetTexts ==
    { CIDRText(<<3, 3>>, 4), CIDRText(<<3, 3>>, 3), CIDRText(<<1, 2>>, 2),
      CIDRText(<<0, 3, 3, 3, 3>>, 10), CIDRText(<<1, 0, 0, 0, 1>>, 9) }

\* The subnets scanned by a single worker: the whole short family, and a
\* subnet of the long family that begins below the IPv4-mapped range and
\* runs into it.
LargeSubnetTexts ==
    { CIDRText(<<0, 0>>, 0), CIDRText(<<0, 3, 2, 0, 0>>, 5) }

RunOptions ==
    [Subnet     : SmallSubnetTexts,
     Count      : 1..MaxRunCount,
     Interval   : {0},
     Timeout    : {0},
     MaxWorkers : 1..MaxRunWorkers,
     LogLevel   : {"error"}]
    \cup
    [Subnet     : LargeSubnetTexts,
     Count      : {1},
     Interval   : {0},
     Timeout    : {0},
     MaxWorkers : {1},
     LogLevel   : {"error"}]

Workers == 0..(sp.MaxWorkers - 1)

Init ==
    /\ IterIdle
    /\ CallIdle
    /\ ci = FALSE
    /\ part = NoPart
    /\ \E o \in RunOptions : \E r \in NewSubpingWithPinger(o, "real") :
        /\ r.err = NoError
        /\ sp = r.sp
        /\ opts = r.opts
        /\ err = r.err
    /\ pc = "created"
    /\ network \in NetworkConditions
    /\ jobChannel = <<>>
    /\ closed = FALSE
    /\ wg = 0
    /\ ipString = <<>>
    /\ wpc = [w \in Workers |-> "unborn"]
    /\ target = [w \in Workers |-> <<>>]
    /\ p = [w \in Workers |-> ZeroResult]
    /\ syncMap = {}

\* Run, entry: the sync.Map, the WaitGroup and make(chan string, s.BatchSize).
\* Nothing in Run or in the session tells a first call from a later one, so
\* the caller may call it again once it has returned; the workers of a call
\* are new goroutines with locals of their own.
Run ==
    /\ pc \in {"created", "done"}
    /\ runs < MaxRuns
    /\ runs' = runs + 1
    /\ jobChannel' = <<>>
    /\ closed' = FALSE
    /\ wg' = 0
    /\ syncMap' = {}
    /\ wpc' = [w \in Workers |-> "unborn"]
    /\ target' = [w \in Workers |-> <<>>]
    /\ p' = [w \in Workers |-> ZeroResult]
    /\ probed' = {}
    /\ stored' = {}
    /\ sent' = <<>>
    /\ pulled' = <<>>
    /\ probes' = {}
    /\ pc' = "spawn"
    /\ UNCHANGED <<iterVars, newVars, network, ipString, online, mock, toolVars>>

\* A spawn loop that stops one worker short of MaxWorkers.
Spawn_OneShort ==
    /\ pc = "spawn"
    /\ IF wg < sp.MaxWorkers - 1
       THEN /\ wpc' = [wpc EXCEPT ![wg] = "recv"]
            /\ wg' = wg + 1
            /\ pc' = pc
       ELSE /\ pc' = "next"
            /\ UNCHANGED <<wpc, wg>>
    /\ UNCHANGED <<callVars, iterVars, newVars, network, jobChannel, closed, ipString,
                   target, p, syncMap>>

\* Run, the spawn loop: wg.Add(1); go s.startWorker(i, ...), and after the
\* last worker the first Next() of the dispatch loop is due.
Spawn ==
    /\ pc = "spawn"
    /\ IF wg < sp.MaxWorkers
       THEN /\ wpc' = [wpc EXCEPT ![wg] = "recv"]
            /\ wg' = wg + 1
            /\ pc' = pc
       ELSE /\ pc' = "next"
            /\ UNCHANGED <<wpc, wg>>
    /\ UNCHANGED <<callVars, iterVars, newVars, network, jobChannel, closed, ipString,
                   target, p, syncMap>>

\* Run, the dispatch loop: ip := s.TargetsIterator.Next(); on nil the loop
\* ends, else ipString := ip.String().
Dispatch ==
    /\ pc = "next"
    /\ sp' = [sp EXCEPT !.TargetsIterator = NextState(sp.TargetsIterator)]
    /\ IF NextResult(sp.TargetsIterator) = Nil
       THEN /\ pc' = "close"
            /\ UNCHANGED ipString
       ELSE /\ pc' = "send"
            /\ ipString' = String(NextResult(sp.TargetsIterator))
    /\ UNCHANGED <<callVars, iterVars, opts, ci, err, part, network, jobChannel, closed,
                   wg, wpc, target, p, syncMap>>

\* A send on a channel without a capacity: it never blocks.
Send_Unbounded ==
    /\ pc = "send"
    /\ jobChannel' = Append(jobChannel, ipString)
    /\ sent' = Record(sent, ipString)
    /\ pc' = "next"
    /\ UNCHANGED <<iterVars, newVars, network, closed, wg, ipString, wpc,
                   target, p, syncMap, runs, probed, stored, online, mock,
                   toolVars, pulled, probes>>

\* Run: jobChannel <- ipString, which blocks while the buffer is full.
Send ==
    /\ pc = "send"
    /\ Len(jobChannel) < sp.BatchSize
    /\ jobChannel' = Append(jobChannel, ipString)
    /\ sent' = Record(sent, ipString)
    /\ pc' = "next"
    /\ UNCHANGED <<iterVars, newVars, network, closed, wg, ipString, wpc,
                   target, p, syncMap, runs, probed, stored, online, mock,
                   toolVars, pulled, probes>>

\* A producer that closes the channel and goes back to its dispatch loop.
Close_KeepsDispatching ==
    /\ pc = "close"
    /\ closed' = TRUE
    /\ pc' = "next"
    /\ UNCHANGED <<callVars, iterVars, newVars, network, jobChannel, wg, ipString, wpc,
                   target, p, syncMap>>

\* Run: close(jobChannel), then wg.Wait() is due.
Close ==
    /\ pc = "close"
    /\ closed' = TRUE
    /\ pc' = "wait"
    /\ UNCHANGED <<callVars, iterVars, newVars, network, jobChannel, wg, ipString, wpc,
                   target, p, syncMap>>

\* Run without its wg.Wait(): the copy is taken as soon as the channel is
\* closed.
Collect_NoWait ==
    /\ pc = "wait"
    /\ sp' = [sp EXCEPT !.Results = syncMap,
                        !.TotalResults = Cardinality(MapKeys(syncMap))]
    /\ pc' = "done"
    /\ UNCHANGED <<callVars, iterVars, opts, ci, err, part, runVars>>

\* Run: wg.Wait() returns, the sync.Map is copied into s.Results and
\* s.TotalResults is set.
Collect ==
    /\ pc = "wait"
    /\ wg = 0
    /\ sp' = [sp EXCEPT !.Results = syncMap,
                        !.TotalResults = Cardinality(MapKeys(syncMap))]
    /\ pc' = "done"
    /\ UNCHANGED <<callVars, iterVars, opts, ci, err, part, runVars>>

\* A worker that leaves its loop as soon as it finds the channel empty,
\* closed or not.
Receive_LeavesWhenEmpty(w) ==
    /\ wpc[w] = "recv"
    /\ IF jobChannel # <<>>
       THEN /\ target' = [target EXCEPT ![w] = Head(jobChannel)]
            /\ jobChannel' = Tail(jobChannel)
            /\ pulled' = Record(pulled, Head(jobChannel))
            /\ wpc' = [wpc EXCEPT ![w] = "ping"]
            /\ UNCHANGED wg
       ELSE /\ wpc' = [wpc EXCEPT ![w] = "exited"]
            /\ wg' = wg - 1
            /\ UNCHANGED <<target, jobChannel, pulled>>
    /\ UNCHANGED <<iterVars, newVars, pc, network, closed, ipString, p, syncMap,
                   runs, probed, stored, online, mock, toolVars, sent, probes>>

\* startWorker: for target := range c: take the next job, or leave the loop
\* (and wg.Done()) when the channel is closed and empty.
Receive(w) ==
    /\ wpc[w] = "recv"
    /\ IF jobChannel # <<>>
       THEN /\ target' = [target EXCEPT ![w] = Head(jobChannel)]
            /\ jobChannel' = Tail(jobChannel)
            /\ pulled' = Record(pulled, Head(jobChannel))
            /\ wpc' = [wpc EXCEPT ![w] = "ping"]
            /\ UNCHANGED wg
       ELSE /\ closed
            /\ wpc' = [wpc EXCEPT ![w] = "exited"]
            /\ wg' = wg - 1
            /\ UNCHANGED <<target, jobChannel, pulled>>
    /\ UNCHANGED <<iterVars, newVars, pc, network, closed, ipString, p, syncMap,
                   runs, probed, stored, online, mock, toolVars, sent, probes>>

\* Workers that keep the result of a probe in one variable they all share.
Probe_SharedResult(w) ==
    /\ wpc[w] = "ping"
    /\ LET r == Ping(sp.pinger, network, target[w], sp.Count)
       IN  /\ p' = [v \in DOMAIN p |-> IF r.err # NoError THEN ZeroResult ELSE r.res]
           /\ probed' = probed \cup {<<target[w], r.res, r.err>>}
    /\ probes' = MapStore(probes, target[w],
                          IF MapHas(probes, target[w]) THEN 2 ELSE 1)
    /\ wpc' = [wpc EXCEPT ![w] = "store"]
    /\ UNCHANGED <<iterVars, newVars, pc, network, jobChannel, closed, wg,
                   ipString, target, syncMap, runs, stored, online, mock,
                   toolVars, sent, pulled>>

\* startWorker: p, err := s.pinger.Ping(...); on an error p = ping.Result{}.
Probe(w) ==
    /\ wpc[w] = "ping"
    /\ LET r == Ping(sp.pinger, network, target[w], sp.Count)
       IN  /\ p' = [p EXCEPT ![w] = IF r.err # NoError THEN ZeroResult ELSE r.res]
           /\ probed' = probed \cup {<<target[w], r.res, r.err>>}
    /\ probes' = MapStore(probes, target[w],
                          IF MapHas(probes, target[w]) THEN 2 ELSE 1)
    /\ wpc' = [wpc EXCEPT ![w] = "store"]
    /\ UNCHANGED <<iterVars, newVars, pc, network, jobChannel, closed, wg,
                   ipString, target, syncMap, runs, stored, online, mock,
                   toolVars, sent, pulled>>

\* A worker that stores nothing for a target whose probe failed.
Store_SkipsFailedProbe(w) ==
    /\ wpc[w] = "store"
    /\ syncMap' = IF p[w] = ZeroResult THEN syncMap
                  ELSE MapStore(syncMap, target[w], p[w])
    /\ stored' = stored \cup {<<target[w], p[w]>>}
    /\ wpc' = [wpc EXCEPT ![w] = "sleep"]
    /\ UNCHANGED <<iterVars, newVars, pc, network, jobChannel, closed, wg,
                   ipString, target, p, runs, probed, online, mock,
                   toolVars, queueVars>>

\* startWorker: sm.Store(target, p)
Store(w) ==
    /\ wpc[w] = "store"
    /\ syncMap' = MapStore(syncMap, target[w], p[w])
    /\ stored' = stored \cup {<<target[w], p[w]>>}
    /\ wpc' = [wpc EXCEPT ![w] = "sleep"]
    /\ UNCHANGED <<iterVars, newVars, pc, network, jobChannel, closed, wg,
                   ipString, target, p, runs, probed, online, mock,
                   toolVars, queueVars>>

\* A worker that is ready for its next job while its store is still due: the
\* sleep is followed by the store.
Sleep_BeforeStore(w) ==
    /\ wpc[w] \in {"store", "sleep"}
    /\ wpc' = [wpc EXCEPT ![w] = "recv"]
    /\ UNCHANGED <<callVars, iterVars, newVars, pc, network, jobChannel, closed, wg,
                   ipString, target, p, syncMap>>

\* startWorker: time.Sleep(s.Interval), then the next receive.
Sleep(w) ==
    /\ wpc[w] = "sleep"
    /\ wpc' = [wpc EXCEPT ![w] = "recv"]
    /\ UNCHANGED <<callVars, iterVars, newVars, pc, network, jobChannel, closed, wg,
                   ipString, target, p, syncMap>>

startWorker(w) == Receive(w) \/ Probe(w) \/ Store(w) \/ Sleep(w)

\* r, n := s.GetOnlineHosts(), called on a session no Run() is working on.
CallGetOnlineHosts ==
    /\ pc \in {"created", "done"}
    /\ online' = GetOnlineHosts(sp)
    /\ UNCHANGED <<iterVars, newVars, runVars, pc, runs, probed, stored, mock,
                   toolVars, queueVars>>

NextRun ==
    \/ Run
    \/ Spawn
    \/ Dispatch
    \/ Send
    \/ Close
    \/ Collect
    \/ CallGetOnlineHosts
    \/ \E w \in Workers : startWorker(w)

Spec == Init /\ [][NextRun]_vars

\* ------------------------------------------------------ Run: what is claimed
\* C2: when Run() has returned, Results has one entry per host of the subnet
\* (TotalHosts) and TotalResults is the size of Results.
C2_ResultsCoverSubnet ==
    (pc = "done" /\ runs = 1) =>
        /\ Cardinality(MapKeys(sp.Results)) = sp.TargetsIterator.TotalHosts
        /\ sp.TotalResults = Cardinality(MapKeys(sp.Results))

\* C11: a probe error stops nobody. The worker whose probe failed goes on to
\* store the zero Result; a worker leaves its loop only when the channel is
\* closed and empty; and when Run() has returned, every target probed is in
\* Results, with the zero Result if its probe returned an error and with the
\* Result its probe returned otherwise.
C11_ProbeErrorIsNotFatal ==
    /\ \A w \in DOMAIN wpc :
        /\ wpc[w] = "store" =>
            \E e \in probed :
                /\ e[1] = target[w]
                /\ e[3] # NoError => p[w] = ZeroResult
                /\ e[3] = NoError => p[w] = e[2]
        /\ wpc[w] = "exited" => (closed /\ jobChannel = <<>>)
    /\ pc = "done" =>
        \A e \in probed :
            <<e[1], IF e[3] # NoError THEN ZeroResult ELSE e[2]>> \in sp.Results

\* C11 witness: Run() has returned after probes that failed and probes that
\* did not.
C11_Witness ==
    /\ pc = "done"
    /\ \E e \in probed : e[3] # NoError /\ <<e[1], ZeroResult>> \in sp.Results
    /\ \E e \in probed : e[3] = NoError /\ e[2].PacketsRecv > 0

\* C12: no store is lost. Every <<target, Result>> a worker has stored is in
\* the shared map while Run() is at work, and in Results once it has returned.
C12_NoStoreLost ==
    /\ pc \in {"spawn", "next", "send", "close", "wait"} => stored \subseteq syncMap
    /\ pc = "done" => stored \subseteq sp.Results

\* C12 witness: Run() has returned with the stores of several workers.
C12_Witness ==
    /\ pc = "done"
    /\ sp.MaxWorkers >= 2
    /\ Cardinality(stored) >= 4
    /\ Cardinality({w \in DOMAIN p : p[w] # ZeroResult}) >= 2

\* C13: when Run() has returned, each of the MaxWorkers workers has exited,
\* none holds a job, the channel is drained, Results is the content of the
\* shared map (nothing is stored after the copy) and TotalResults is its size.
C13_ReturnsAfterWorkersAndFlatten ==
    pc = "done" =>
        /\ DOMAIN wpc = 0..(sp.MaxWorkers - 1)
        /\ \A w \in DOMAIN wpc : wpc[w] = "exited"
        /\ wg = 0
        /\ closed
        /\ jobChannel = <<>>
        /\ sp.Results = syncMap
        /\ stored \subseteq sp.Results
        /\ sp.TotalResults = Cardinality(MapKeys(sp.Results))

\* C13 witness: Run() has returned from a scan of several hosts by several
\* workers.
C13_Witness ==
    /\ pc = "done"
    /\ runs = 1
    /\ sp.MaxWorkers >= 2
    /\ sp.TotalResults >= 2
    /\ \A w \in DOMAIN wpc : wpc[w] = "exited"

\* The goroutines of Run(): the caller's and one per worker.
MainThread == Run \/ Spawn \/ Dispatch \/ Send \/ Close \/ Collect

\* The sessions whose Run() is followed to its end: two and four hosts
\* scanned by one or two workers, and the whole short family scanned by one.
LiveOptions ==
    {o \in RunOptions :
        /\ o.Count = 1
        /\ \/ o.Subnet \in {CIDRText(<<3, 3>>, 3), CIDRText(<<1, 2>>, 2)} /\ o.MaxWorkers <= 2
           \/ o.Subnet = CIDRText(<<0, 0>>, 0)}

InitLive ==
    /\ IterIdle
    /\ CallIdle
    /\ ci = FALSE
    /\ part = NoPart
    /\ \E o \in LiveOptions : \E r \in NewSubpingWithPinger(o, "real") :
        /\ r.err = NoError
        /\ sp = r.sp
        /\ opts = r.opts
        /\ err = r.err
    /\ pc = "created"
    /\ network \in NetworkConditions
    /\ jobChannel = <<>>
    /\ closed = FALSE
    /\ wg = 0
    /\ ipString = <<>>
    /\ wpc = [w \in Workers |-> "unborn"]
    /\ target = [w \in Workers |-> <<>>]
    /\ p = [w \in Workers |-> ZeroResult]
    /\ syncMap = {}

\* Run() with every goroutine scheduled again and again while it can take a
\* step (every Ping call returns).
SpecLive ==
    /\ InitLive
    /\ [][NextRun]_vars
    /\ WF_vars(MainThread)
    /\ \A w \in 0..(MaxRunWorkers - 1) : WF_vars(w \in Workers /\ startWorker(w))

\* C14: Run() terminates: a session on which Run() is at work (Dispatching
\* or Draining) becomes Completed.
C14_RunTerminates ==
    (pc \in {"spawn", "next", "send", "close", "wait"}) ~> (pc = "done")

\* C15: a Completed session holds one result per host of the subnet, after
\* any number of Run() calls, and stays Completed.
C15_CompletedIsFinal ==
    [][/\ pc = "done" => pc' = "done"
       /\ pc' = "done" =>
            Cardinality(MapKeys(sp'.Results)) = sp'.TargetsIterator.TotalHosts]_vars

\* C16: a GetOnlineHosts() call leaves the session as it is and returns the
\* entries of Results with PacketsRecv > 0, values unchanged, and their
\* number, which is at most len(Results).
C16_OnlineHostsAreTheAnswering ==
    [][online' # online =>
        /\ sp' = sp
        /\ online'.r \subseteq sp.Results
        /\ \A e \in sp.Results : (e \in online'.r) = (e[2].PacketsRecv > 0)
        /\ online'.n = Cardinality(MapKeys(online'.r))
        /\ online'.n = Cardinality(online'.r)
        /\ online'.n <= Cardinality(MapKeys(sp.Results))]_vars

\* C16 witness: GetOnlineHosts() has returned some of the hosts of a finished
\* scan, not all.
C16_Witness ==
    /\ pc = "done"
    /\ runs = 1
    /\ online # NoCall
    /\ online.n >= 1
    /\ online.n < sp.TotalResults
    /\ online.r \subseteq sp.Results

\* ------------------------------------------------- iterator: what is claimed
\* The addresses of the subnet: those that agree with the network address on
\* the prefix bits.
SubnetAddrs(ipNet) ==
    {a \in IPsOfLen(Len(ipNet.IP)) : IPMask(a, ipNet.Mask) = ipNet.IP}

HostBits(ipNet) == AddrBits(Len(ipNet.Mask)) - MaskOnes(ipNet.Mask, 1)

Calls == Len(out) + nilCalls

\* The state right after the first nil result.
AtFirstNil == nilCalls = 1 /\ ret = Nil

\* a < b in byte order
RECURSIVE LessFrom(_, _, _)
LessFrom(a, b, i) ==
    IF i > Len(a) THEN FALSE
    ELSE IF a[i] # b[i] THEN a[i] < b[i]
    ELSE LessFrom(a, b, i + 1)

Less(a, b) == LessFrom(a, b, 1)

\* C1: up to the first nil result the iterator emits no address outside the
\* subnet and no address twice, and at the first nil result it has emitted
\* every address of the subnet, 2^(addressBits - prefixLength) in all.
C1_EmitsSubnetOnce ==
    /\ nilCalls = 0 =>
        /\ \A i \in 1..Len(out) : out[i] \in SubnetAddrs(it.IPNet)
        /\ \A i, j \in 1..Len(out) : i < j => out[i] # out[j]
    /\ AtFirstNil =>
        /\ {out[i] : i \in 1..Len(out)} = SubnetAddrs(it.IPNet)
        /\ Len(out) = Pow2(HostBits(it.IPNet))

\* C4: the sequence is finite: Next() returns nil after at most as many
\* non-nil results as the subnet has addresses.
C4_FiniteSequence ==
    nilCalls = 0 => Len(out) <= Pow2(HostBits(it.IPNet))

\* C5: up to the first nil result the addresses are strictly ascending, each
\* the previous one plus one; the first is the network address and the last
\* one equals LastIP.
C5_AscendingByOne ==
    /\ nilCalls = 0 =>
        /\ Len(out) >= 1 => out[1] = it.IPNet.IP
        /\ \A i \in 1..(Len(out) - 1) :
            /\ out[i + 1] = Increment(out[i], Len(out[i]))
            /\ Less(out[i], out[i + 1])
    /\ AtFirstNil => out[Len(out)] = it.LastIP

\* C6: the first call returns the network address itself; a subnet of one
\* address (/32, /128) returns it and then nil, one of two addresses (/31)
\* returns exactly 2 and one of four (/30) exactly 4 before the first nil.
C6_FirstAndSmallSubnets ==
    /\ Calls = 1 => ret = it.IPNet.IP /\ out = <<it.IPNet.IP>>
    /\ HostBits(it.IPNet) <= 2 =>
        /\ Calls <= Pow2(HostBits(it.IPNet)) => nilCalls = 0
        /\ Calls = Pow2(HostBits(it.IPNet)) + 1 =>
            ret = Nil /\ Len(out) = Pow2(HostBits(it.IPNet))

\* C6 witness: a /30 of the short family has returned its 4 addresses and
\* then nil.
C6_Witness ==
    /\ Len(it.FirstIP) = IPv4len
    /\ HostBits(it.IPNet) = 2
    /\ AtFirstNil
    /\ Len(out) = 4

\* C7: once Next() has returned nil it returns nil on every later call.
C7_NilForever == [][ret = Nil => ret' = Nil]_vars

\* C8: TotalHosts is 2^(addressBits - prefixLength), a non-negative int, and
\* equals the number of addresses emitted up to the first nil result.
C8_TotalHostsExact ==
    /\ it.TotalHosts >= 0
    /\ it.TotalHosts = Pow2(HostBits(it.IPNet))
    /\ AtFirstNil => Len(out) = it.TotalHosts

\* ------------------------------------- constructor and sizer: what is claimed
Constructed == pc \in {"NewSubping", "NewSubpingWithPinger"}

\* One of the option faults the constructors name.
InvalidOptions(o) ==
    \/ o.Subnet.kind # "cidr"
    \/ o.Count < 1
    \/ o.MaxWorkers < 1
    \/ o.Timeout < 0
    \/ o.Interval < 0

SessionKeepsOptions ==
    /\ sp # NoSession
    /\ err = NoError
    /\ sp.Count = opts.Count
    /\ sp.Interval = opts.Interval
    /\ sp.Timeout = opts.Timeout
    /\ sp.MaxWorkers = opts.MaxWorkers

\* C3 as claimed: the constructor fails with a nil session when an option is
\* invalid, and returns a session that keeps the options in every other case.
C3_FailsExactlyOnInvalidOptions ==
    Constructed =>
        IF InvalidOptions(opts)
        THEN err # NoError /\ sp = NoSession
        ELSE SessionKeepsOptions

\* The host count of the Subnet option does not fit an int.
HostCountOverflows(o) ==
    AddrBits(Len(o.Subnet.ip)) - o.Subnet.ones > IntBits - 2

\* C3 amended: the constructor fails with a nil session when an option is
\* invalid or LogLevel is neither empty nor a level name; in every other case
\* it returns a session that keeps the options, or, only for a subnet whose
\* host count does not fit an int, the partition-size error and no session.
C3_FailsOnInvalidOptionsOrLogLevel ==
    Constructed =>
        IF InvalidOptions(opts) \/ opts.LogLevel \notin (LogLevels \cup {""})
        THEN err # NoError /\ sp = NoSession
        ELSE \/ SessionKeepsOptions
             \/ /\ HostCountOverflows(opts)
                /\ err = "the value exceeds the range of int"
                /\ sp = NoSession

\* C3 witness: a constructor call whose only fault is a negative Timeout has
\* failed.
C3_Witness ==
    /\ Constructed
    /\ opts.Subnet.kind = "cidr"
    /\ opts.Count >= 1
    /\ opts.MaxWorkers >= 1
    /\ opts.Interval >= 0
    /\ opts.LogLevel = "error"
    /\ opts.Timeout < 0
    /\ sp = NoSession

\* C9: for totalHosts >= 1 and workerCount >= 1 the sizer returns the ceiling
\* of totalHosts / workerCount and no error; (256, 10) gives 26, (256, 256)
\* gives 1 and (1, 1) gives 1.
C9_CeilingOfQuotient ==
    (pc = "sized" /\ part.dataSize >= 1 /\ part.numPartitions >= 1) =>
        /\ err = NoError
        /\ part.value >= 1
        /\ part.value * part.numPartitions >= part.dataSize
        /\ (part.value - 1) * part.numPartitions < part.dataSize
        /\ (part.dataSize = 256 /\ part.numPartitions = 10) => part.value = 26
        /\ (part.dataSize = 256 /\ part.numPartitions = 256) => part.value = 1
        /\ (part.dataSize = 1 /\ part.numPartitions = 1) => part.value = 1

\* C9 witness: the sizer has returned 26 for (256, 10).
C9_Witness ==
    /\ pc = "sized"
    /\ part.dataSize = 256
    /\ part.numPartitions = 10
    /\ part.value = 26

\* The capacity the sizer computes for d items in n >= 1 partitions: the
\* quotient truncated toward zero, plus one when d is no multiple of n.
Capacity(d, n) ==
    LET t == IF d >= 0 THEN d \div n ELSE 0 - ((0 - d) \div n)
    IN  IF d % n # 0 THEN t + 1 ELSE t

\* C10: the sizer returns an error, with value 0, exactly when the capacity
\* it computes is negative, never for a positive host count and worker
\* count; and a constructor that meets the error returns it with no session,
\* so a session always holds a capacity that is not negative.
C10_ErrorIffNegativeCapacity ==
    /\ pc = "sized" =>
        /\ (err # NoError) = (Capacity(part.dataSize, part.numPartitions) < 0)
        /\ err # NoError => part.value = 0
        /\ err = NoError => part.value = Capacity(part.dataSize, part.numPartitions)
        /\ (part.dataSize >= 1 /\ part.numPartitions >= 1) => err = NoError
    /\ Constructed =>
        /\ err = "the value exceeds the range of int" =>
            sp = NoSession /\ HostCountOverflows(opts)
        /\ sp # NoSession =>
            /\ Capacity(sp.TargetsIterator.TotalHosts, sp.MaxWorkers) >= 0
            /\ sp.BatchSize = Capacity(sp.TargetsIterator.TotalHosts, sp.MaxWorkers)

\* C10 witness: a constructor has returned the sizer's error and no session.
C10_Witness ==
    /\ Constructed
    /\ err = "the value exceeds the range of int"
    /\ sp = NoSession

\* C17: the Probe variant of a session is fixed by the constructor's
\* arguments: the same call made with the same arguments in any process
\* environment gives a session with the same variant.
C17_VariantChosenByCallerOnly ==
    (Constructed /\ sp # NoSession) =>
        \A e \in BOOLEAN :
            \A r \in (IF pc = "NewSubping"
                      THEN NewSubping(opts, e)
                      ELSE NewSubpingWithPinger(opts, sp.pinger)) :
                r.sp # NoSession => r.sp.pinger = sp.pinger

\* ------------------------------------------------ mockPinger: what is claimed
Pinged == pc = "pinged"

\* The texts that name a loopback address, and those that name an address of
\* a private range.
LoopbackTexts ==
    {"localhost", "127.0.0.1", "127.255.255.254", "::1", "::ffff:127.0.0.1"}

PrivateTexts ==
    {"10.0.0.1", "172.16.0.1", "172.31.255.255", "192.168.1.1", "fc00::1",
     "fd00::1", "fe80::1"}

\* C18: a Ping of the synthetic prober on a loopback address with count >= 1
\* returns no error, PacketsRecv = PacketsSent = count and no loss, whatever
\* the configuration holds.
C18_LoopbackAlwaysAnswers ==
    (Pinged /\ mock.call.ipAddress \in LoopbackTexts /\ mock.call.count >= 1) =>
        /\ mock.call.err = Nil
        /\ mock.call.res.PacketsSent = mock.call.count
        /\ mock.call.res.PacketsRecv = mock.call.count
        /\ mock.call.res.PacketLoss = 0

\* C19: a Ping of the synthetic prober on a text that is neither an address
\* nor "localhost" returns an error and the zero Result, whatever host
\* configuration is set for that text; on an address with no host
\* configuration that forces a failure it returns no error.
C19_InvalidAddressIsRejected ==
    Pinged =>
        LET a == mock.call.ipAddress
            forced == \E e \in mock.config.HostConfigs : e[1] = a /\ e[2].ShouldError
        IN  /\ (a \in UnparsedTexts \ {"localhost"}) =>
                (mock.call.err # Nil /\ mock.call.res = ZeroResult)
            /\ (a \notin UnparsedTexts /\ ~forced) => mock.call.err = Nil

\* C19 witness: a Ping on a text that is no address, with a host
\* configuration set for that text, has returned an error.
C19_Witness ==
    /\ Pinged
    /\ mock.call.ipAddress = "not-an-ip"
    /\ \E e \in mock.config.HostConfigs : e[1] = "not-an-ip" /\ ~e[2].ShouldError
    /\ mock.call.err # Nil

\* C20: the precedence of the synthetic prober on a valid address: the host
\* configuration set for the text (an error if it forces a failure, else its
\* latency and loss); else 1ms and no loss for a loopback address; else the
\* default latency and loss for an address of a private range; else 50ms and
\* a loss ratio of 0.1 (10 percent).
C20_ClassificationPrecedence ==
    (Pinged /\ mock.call.ipAddress \notin (UnparsedTexts \ {"localhost"})) =>
        LET a == mock.call.ipAddress
            res == mock.call.res
            hc == {e[2] : e \in {x \in mock.config.HostConfigs : x[1] = a}}
        IN  IF hc # {}
            THEN \A h \in hc :
                    IF h.ShouldError
                    THEN mock.call.err # Nil
                    ELSE /\ mock.call.err = Nil
                         /\ res.AvgRtt = h.Latency
                         /\ res.PacketLoss = h.PacketLoss
            ELSE /\ mock.call.err = Nil
                 /\ IF a \in LoopbackTexts
                    THEN res.AvgRtt = 1 /\ res.PacketLoss = 0
                    ELSE IF a \in PrivateTexts
                    THEN /\ res.AvgRtt = mock.config.DefaultLatency
                         /\ res.PacketLoss = mock.config.DefaultPacketLoss
                    ELSE res.AvgRtt = 50 /\ res.PacketLoss = 10

\* C20 witness: a Ping on a loopback address with a host configuration set
\* for it has answered with the latency and loss of that configuration.
C20_Witness ==
    /\ Pinged
    /\ mock.call.ipAddress = "127.0.0.1"
    /\ \E e \in mock.config.HostConfigs : e[1] = "127.0.0.1" /\ e[2].PacketLoss = 50
    /\ mock.call.err = Nil
    /\ mock.call.res.AvgRtt = 5
    /\ mock.call.res.PacketLoss = 50


\* ------------------------------------------- Run, the queue: what is claimed
\* C26: when the first Run() of a session has returned, every address of
\* the subnet has been probed exactly once, and at no time of it has an
\* address been probed twice; what was pulled from the queue is what was put
\* on it, each address once.
C26_EachAddressProbedOnce ==
    /\ \A e \in probes : e[2] = 1
    /\ \A i, j \in 1..Len(pulled) : i # j => pulled[i] # pulled[j]
    /\ (pc = "done" /\ runs = 1) =>
        /\ pulled = sent
        /\ probes = {<<String(a), 1>> : a \in SubnetAddrs(sp.TargetsIterator.IPNet)}

\* C27: the queue never holds more than BatchSize addresses, BatchSize is the
\* ceiling of TotalHosts / MaxWorkers, and while the producer stands at a
\* full queue it enqueues nothing and leaves the iterator alone: the queue
\* can only shrink.
C27_QueueWithinBatchSize ==
    [][/\ Len(jobChannel) <= sp.BatchSize
       /\ Len(jobChannel') <= sp'.BatchSize
       /\ sp.BatchSize * sp.MaxWorkers >= sp.TargetsIterator.TotalHosts
       /\ (sp.BatchSize - 1) * sp.MaxWorkers < sp.TargetsIterator.TotalHosts
       /\ (pc = "send" /\ Len(jobChannel) >= sp.BatchSize) =>
            /\ pc' = "send"
            /\ sent' = sent
            /\ sp' = sp
            /\ Len(jobChannel') <= Len(jobChannel)]_vars

\* C27 witness: the producer holds an address and stands at a queue filled
\* with BatchSize = 2 addresses, none of the two workers having pulled yet.
C27_Witness ==
    /\ pc = "send"
    /\ sp.BatchSize = 2
    /\ sp.MaxWorkers = 2
    /\ Len(jobChannel) = sp.BatchSize
    /\ \A w \in Workers : wpc[w] = "recv"

\* The workers spawned so far by this Run().
Spawned == {w \in DOMAIN wpc : wpc[w] # "unborn"}

\* C28: a worker is spawned only by the spawn loop, before anything is
\* enqueued; from the first Next() to the return of Run() the pool holds
\* exactly MaxWorkers workers.
C28_PoolIsFixedBeforeDispatch ==
    [][/\ DOMAIN wpc' = 0..(sp'.MaxWorkers - 1)
       /\ Spawned' \ Spawned # {} => (pc = "spawn" /\ pc' = "spawn" /\ sent' = <<>>)
       /\ (sent' # <<>> \/ pc' \in {"next", "send", "close", "wait", "done"}) =>
            Cardinality(Spawned') = sp'.MaxWorkers]_vars

\* C28 witness: three workers wait at the empty queue while the producer
\* holds the first address.
C28_Witness ==
    /\ pc = "send"
    /\ sent = <<>>
    /\ sp.MaxWorkers = 3
    /\ Cardinality(Spawned) = 3
    /\ \A w \in Workers : wpc[w] = "recv"

\* C29: a worker exits only from a queue that is closed and empty; once all
\* workers have exited the queue is empty and what was pulled is what was
\* enqueued.
C29_ExitOnlyWhenClosedAndEmpty ==
    [][/\ \A w \in DOMAIN wpc :
            (wpc[w] # "exited" /\ wpc'[w] = "exited") =>
                (closed /\ jobChannel = <<>> /\ closed' /\ jobChannel' = <<>>)
       /\ (\A w \in DOMAIN wpc' : wpc'[w] = "exited") =>
            (jobChannel' = <<>> /\ pulled' = sent')]_vars

\* C29 witness: the last of several workers has exited after four addresses
\* went through the queue.
C29_Witness ==
    /\ pc = "wait"
    /\ sp.MaxWorkers >= 2
    /\ \A w \in Workers : wpc[w] = "exited"
    /\ Len(sent) = 4
    /\ pulled = sent

\* C30: the addresses are put on the queue in ascending byte order.
C30_EnqueuedAscending ==
    \A i, j \in 1..Len(sent) : i < j => Less(sent[i][2], sent[j][2])

\* ------------------------------------------------- RunPing: what is claimed
\* C21: RunPing returns the zero Statistics (PacketsSent = 0, PacketsRecv = 0)
\* when the prober returned an error, and otherwise the prober's sent,
\* received and duplicate counts, loss and average RTT unchanged, with the
\* three fields the Result does not have left zero.
C21_ZeroOnErrorElseCopy ==
    (pc = "ping" /\ call # NoCall) =>
        IF call.err # NoError
        THEN /\ call.stats.PacketsSent = 0
             /\ call.stats.PacketsRecv = 0
             /\ call.stats = ZeroStatistics
        ELSE /\ call.stats.PacketsSent = call.result.PacketsSent
             /\ call.stats.PacketsRecv = call.result.PacketsRecv
             /\ call.stats.PacketsRecvDuplicates = call.result.PacketsRecvDuplicates
             /\ call.stats.PacketLoss = call.result.PacketLoss
             /\ call.stats.AvgRtt = call.result.AvgRtt
             /\ call.stats.MinRtt = 0
             /\ call.stats.MaxRtt = 0
             /\ call.stats.StdDevRtt = 0

\* C21 witness: an exchange of two echoes, one answered and one answered
\* twice, has been converted.
C21_Witness ==
    /\ pc = "ping"
    /\ call # NoCall
    /\ call.err = NoError
    /\ call.count = 2
    /\ call.stats.PacketsSent = 2
    /\ call.stats.PacketsRecv = 1
    /\ call.stats.PacketsRecvDuplicates = 1
    /\ call.stats.PacketLoss = 50
    /\ call.stats.AvgRtt = MaxRtt

\* ------------------------------ GenerateIPListFromCIDRString: what is claimed
\* C25: for an unparseable string the call returns an error and an empty
\* list; for a parseable one it returns without error the 2^(bits - prefix)
\* addresses of the subnet, the first being the network address and each
\* greater than the one before, with the parsed network as ParseCIDR made it;
\* and the list under construction is never longer than the subnet.
C25_CompleteAscendingList ==
    (pc = "gen" /\ call # NoCall) =>
        IF call.cidr.kind # "cidr"
        THEN call.at = "returned" /\ call.err # NoError /\ call.ips = <<>>
        ELSE /\ call.err = NoError
             /\ call.ipNet = ParseCIDR(call.cidr.ip, call.cidr.ones)
             /\ Len(call.ips) <= Pow2(HostBits(call.ipNet))
             /\ call.at = "returned" =>
                    /\ Len(call.ips) = Pow2(HostBits(call.ipNet))
                    /\ call.ips[1] = call.ipNet.IP
                    /\ \A i \in 1..Len(call.ips) :
                            call.ips[i] \in SubnetAddrs(call.ipNet)
                    /\ \A i \in 1..(Len(call.ips) - 1) :
                            Less(call.ips[i], call.ips[i + 1])

\* ------------------------------------- the shared iterator: what is claimed
\* How often address a is among the addresses a goroutine has noted.
Observed(a) ==
    Cardinality({<<k, n>> \in Goroutines \X (1..Pow2(AddrBits(Len(a)))) :
                    /\ n <= Len(callers.g[k].seen)
                    /\ callers.g[k].seen[n] = a})

\* C22: when every goroutine has got nil from Next(), each address of the
\* subnet has been observed by exactly one of them, once, and nothing else
\* has been observed.
C22_EachAddressObservedOnce ==
    (pc = "shared" /\ \A k \in Goroutines : callers.g[k].at = "ended") =>
        \A a \in IPsOfLen(Len(it.FirstIP)) :
            Observed(a) = IF a \in SubnetAddrs(it.IPNet) THEN 1 ELSE 0

\* ----------------------------------- the list-based schedulers: what is claimed
\* C23: after Run() of the scheduler of src/subping.go, Results holds one
\* entry per target, keyed by the target's text, whatever NumJobs is.
C23_OneResultPerTarget ==
    (pc = "list" /\ sched.guarded /\ sched.at = "done") =>
        /\ Cardinality(sched.Results) = Len(sched.Targets)
        /\ MapKeys(sched.Results) =
                {String(sched.Targets[i]) : i \in 1..Len(sched.Targets)}

\* C23 witness: Run() has returned from three targets in three partitions,
\* with more jobs asked for than there are targets.
C23_Witness ==
    /\ pc = "list"
    /\ sched.guarded
    /\ sched.at = "done"
    /\ Len(sched.Targets) = 3
    /\ sched.NumJobs > Len(sched.Targets)
    /\ Len(sched.PartitionedTargets) = 3
    /\ Len(sched.resultsFromRoutines) = 3
    /\ Cardinality(sched.Results) = 3

\* C24: after Run() of the earliest scheduler, the slice holds the map of
\* every goroutine and the results hold one entry per target.
C24_NoPartialMapLost ==
    (pc = "list" /\ ~sched.guarded /\ sched.at = "done") =>
        /\ Len(sched.resultsFromRoutines) = Len(sched.PartitionedTargets)
        /\ \A j \in DOMAIN sched.job :
                \E n \in 1..Len(sched.resultsFromRoutines) :
                    sched.resultsFromRoutines[n] = sched.job[j].result
        /\ MapKeys(sched.Results) =
                {String(sched.Targets[i]) : i \in 1..Len(sched.Targets)}
        /\ Cardinality(sched.Results) = Len(sched.Targets)

\* ----------------------------------------- Run, the workers: what is claimed
\* The workers that hold a job: pulled, and not yet stored.
InFlight == {w \in DOMAIN wpc : wpc[w] \in {"ping", "store"}}

\* C31: a worker pulls a job only when it holds none, the Result of the job
\* it pulled before being in the store; the jobs pulled and not yet stored
\* are those the workers hold, one each, so that at most MaxWorkers probes
\* are executing.
C31_OneJobInFlightPerWorker ==
    [][/\ \A w \in DOMAIN wpc' :
            (w \in DOMAIN wpc /\ wpc[w] # "ping" /\ wpc'[w] = "ping") =>
                /\ wpc[w] = "recv"
                /\ w \notin InFlight
                /\ target[w] # <<>> => <<target[w], p[w]>> \in syncMap
       /\ Cardinality({w \in DOMAIN wpc' : wpc'[w] = "ping"}) <= sp'.MaxWorkers
       /\ Cardinality(InFlight') <= sp'.MaxWorkers
       /\ (Len(pulled') < RecordCap
            /\ \A i, j \in 1..Len(pulled') : i # j => pulled'[i] # pulled'[j]) =>
            Len(pulled') = Cardinality(MapKeys(syncMap')) + Cardinality(InFlight')]_vars

\* C31 witness: three workers each hold a job, two of them probing, while a
\* fourth address waits in the queue.
C31_Witness ==
    /\ sp.MaxWorkers = 3
    /\ Cardinality(InFlight) = 3
    /\ Cardinality({w \in Workers : wpc[w] = "ping"}) = 2
    /\ Cardinality({target[w] : w \in Workers}) = 3
    /\ Len(jobChannel) = 1

\* C32: the channel is closed by the producer's close step only, once in a
\* Run(), with every address the iterator returned already sent; nothing is
\* sent on a closed channel; and a Run() that has returned has closed it.
C32_ClosedOnceAfterLastSend ==
    [][/\ (closed' /\ ~closed) => (pc = "close" /\ pc' = "wait")
       /\ (pc = "close" /\ pc' # "close") =>
            /\ ~closed /\ closed' /\ pc' = "wait" /\ sent' = sent
            /\ (sent # <<>> /\ Len(sent) < RecordCap) => sent[Len(sent)] = ipString
       /\ (closed /\ closed') =>
            (sent' = sent /\ Len(jobChannel') <= Len(jobChannel) /\ pc' \notin {"next", "send", "close"})
       /\ (closed /\ ~closed') => (runs' = runs + 1 /\ pc = "done")
       /\ pc' \in {"wait", "done"} => closed']_vars

\* C32 witness: the Run() of a subnet of a single address has sent it and
\* closed the channel.
C32_Witness ==
    /\ pc = "wait"
    /\ closed
    /\ runs = 1
    /\ sp.TargetsIterator.TotalHosts = 1
    /\ Len(sent) = 1

\* C33: when Run() has returned, every key of Results is the text of an
\* address of the session's subnet, and the Result under a key is what the
\* probe called with that key returned: the zero Result if it returned an
\* error, its Result otherwise.
C33_ResultsBelongToTheirAddress ==
    pc = "done" =>
        /\ MapKeys(sp.Results) \subseteq
                {String(a) : a \in SubnetAddrs(sp.TargetsIterator.IPNet)}
        /\ \A e \in sp.Results :
                LET r == Ping(sp.pinger, network, e[1], sp.Count)
                IN  /\ <<e[1], r.res, r.err>> \in probed
                    /\ e[2] = IF r.err # NoError THEN ZeroResult ELSE r.res

\* C33 witness: a scan by several workers has returned with an answering, a
\* silent and a failing host among its results.
C33_Witness ==
    /\ pc = "done"
    /\ runs = 1
    /\ sp.MaxWorkers >= 2
    /\ network = "mixed"
    /\ Cardinality({e[2] : e \in sp.Results}) >= 3

\* ------------------------------- the address handed out: what is claimed
\* C34: what is read through the pointer the last Next() returned is, after
\* the next call of Next(), still the address that was returned, and Next()
\* leaves FirstIP and LastIP as they are.
C34_HandedOutAddressIsFrozen ==
    [][/\ (ret # NoRet /\ ret # Nil) => it'.CurrentIP = ret
       /\ it'.FirstIP = it.FirstIP
       /\ it'.LastIP = it.LastIP]_vars

\* --------------------------------------- the two constructors: what is claimed
\* The Options a constructor call can have been made with, given the Options
\* it left behind: an empty LogLevel is replaced by "error".
OptionsBefore ==
    {opts} \cup (IF opts.LogLevel = "error"
                 THEN {[opts EXCEPT !.LogLevel = ""]} ELSE {})

\* An outcome of a constructor with the prober left out.
UpToPinger(r) ==
    IF r.sp = NoSession THEN r ELSE [r EXCEPT !.sp.pinger = "any"]

RECURSIVE Concat(_)
Concat(chunks) ==
    IF chunks = <<>> THEN <<>> ELSE Head(chunks) \o Concat(Tail(chunks))

\* C37: partitionSlice(arr, n) with n >= 1 returns non-empty chunks that,
\* laid end to end in their order, are arr; at most n of them, none longer
\* than the ceiling of len(arr) / n; and none at all for an empty arr.
C37_PartitionCoversInOrder ==
    (pc = "part" /\ call # NoCall) =>
        LET n == call.numPartitions
            size == Len(call.arr)
        IN  /\ Concat(call.result) = call.arr
            /\ \A i \in 1..Len(call.result) :
                    /\ call.result[i] # <<>>
                    /\ Len(call.result[i]) * n < size + n
            /\ Len(call.result) <= n
            /\ size = 0 => call.result = <<>>

\* C37 witness: three targets asked into two partitions came back as a chunk
\* of two and a chunk of one.
C37_Witness ==
    /\ pc = "part"
    /\ call # NoCall
    /\ call.numPartitions = 2
    /\ Len(call.arr) = 3
    /\ Len(call.result) = 2
    /\ Len(call.result[1]) = 2
    /\ Len(call.result[2]) = 1

C38_ResultWithinBounds ==
    (Pinged /\ mock.call.err = Nil /\ mock.call.count >= 1) =>
        /\ mock.call.res.PacketsSent = mock.call.count
        /\ mock.call.res.PacketsRecv >= 0
        /\ mock.call.res.PacketsRecv <= mock.call.res.PacketsSent
        /\ mock.call.res.PacketsRecvDuplicates = 0
        /\ mock.call.res.PacketLoss >= 0
        /\ mock.call.res.PacketLoss <= 100

====
